---- MODULE Spec2Model ----
(***************************************************************************)
(* schwaizer-opendata-mcp: an MCP server that exposes read-only CKAN       *)
(* actions as tools.  The model follows the source's layering:             *)
(*   - text and JSON values (what JavaScript strings / JSON.stringify do)  *)
(*   - the Zod validation schemas and the advertised input shapes          *)
(*   - the Upstream Client (src/api/ckan-client.js)                        *)
(*   - the tool handlers of the five domain modules                        *)
(*   - the dispatch core (CallTool request handler of the entry point)     *)
(*   - the logger and the two output streams, the HTTP library's retry     *)
(* Text is a sequence of one-character strings, so that the regular        *)
(* expressions of the client are modelled by what they match.              *)
(***************************************************************************)
EXTENDS Integers, Sequences, FiniteSets, TLC

VARIABLES CONFIG, LOGGER, now, inv, flights, proc

vars == <<CONFIG, LOGGER, now, inv, flights, proc>>

\* the process after main() has wired the signal handlers and connected the
\* transport: no exit code, no shutdown under way, nothing written by it
Running == [exit |-> <<>>, shutdowns |-> <<>>, stdout |-> {}, stderr |-> {}]

(***************************************************************************)
(* Bounds of the model.                                                    *)
(***************************************************************************)
\* MAX_ROWS is drawn from 0..MaxRowsBound (and one negative value)
MaxRowsBound == 3
\* DEFAULT_ROWS is drawn from 0..DefaultRowsBound
DefaultRowsBound == 4
\* numeric arguments are drawn from -1..ArgNumBound
ArgNumBound == 5

(***************************************************************************)
(* Text.                                                                   *)
(***************************************************************************)
LowerLetters == {"a","b","c","d","e","f","g","h","i","j","k","l","m",
                 "n","o","p","q","r","s","t","u","v","w","x","y","z"}
UpperLetters == {"A","B","C","D","E","F","G","H","I","J","K","L","M",
                 "N","O","P","Q","R","S","T","U","V","W","X","Y","Z"}
Digits == {"0","1","2","3","4","5","6","7","8","9"}

\* \w of a JavaScript regular expression (no u flag): [A-Za-z0-9_]
IsWordChar(c) == c \in LowerLetters \cup UpperLetters \cup Digits \cup {"_"}

\* \s of a JavaScript regular expression, on the characters the model uses
IsSpace(c) == c \in {" ", "\t", "\n"}

\* case folding of the i flag (String.prototype.toUpperCase on ASCII,
\* expressed on the lower-case side)
ToLowerChar(c) ==
  CASE c = "A" -> "a" [] c = "B" -> "b" [] c = "C" -> "c" [] c = "D" -> "d"
    [] c = "E" -> "e" [] c = "F" -> "f" [] c = "G" -> "g" [] c = "H" -> "h"
    [] c = "I" -> "i" [] c = "J" -> "j" [] c = "K" -> "k" [] c = "L" -> "l"
    [] c = "M" -> "m" [] c = "N" -> "n" [] c = "O" -> "o" [] c = "P" -> "p"
    [] c = "Q" -> "q" [] c = "R" -> "r" [] c = "S" -> "s" [] c = "T" -> "t"
    [] c = "U" -> "u" [] c = "V" -> "v" [] c = "W" -> "w" [] c = "X" -> "x"
    [] c = "Y" -> "y" [] c = "Z" -> "z" [] OTHER -> c

ToLower(s) == [i \in 1..Len(s) |-> ToLowerChar(s[i])]

\* s.substring(i-1, j) with 1-based inclusive positions
Sub(s, i, j) == IF j < i THEN <<>> ELSE SubSeq(s, i, j)

\* does the literal lit occur in s starting at position i
StartsAt(s, i, lit) ==
  /\ i >= 1
  /\ i + Len(lit) - 1 <= Len(s)
  /\ SubSeq(s, i, i + Len(lit) - 1) = lit

\* \b at the gap before position i (1 <= i <= Len(s)+1)
WordBoundary(s, i) ==
  LET before == IF i - 1 >= 1 /\ i - 1 <= Len(s) THEN IsWordChar(s[i - 1]) ELSE FALSE
      after  == IF i >= 1 /\ i <= Len(s) THEN IsWordChar(s[i]) ELSE FALSE
  IN before # after

\* concatenation of a sequence of texts
RECURSIVE Concat(_)
Concat(parts) ==
  IF parts = <<>> THEN <<>> ELSE Head(parts) \o Concat(Tail(parts))

\* String(n) for an integer n
DigitChar(d) ==
  CASE d = 0 -> "0" [] d = 1 -> "1" [] d = 2 -> "2" [] d = 3 -> "3" [] d = 4 -> "4"
    [] d = 5 -> "5" [] d = 6 -> "6" [] d = 7 -> "7" [] d = 8 -> "8" [] d = 9 -> "9"

RECURSIVE NatToText(_)
NatToText(n) ==
  IF n < 10 THEN <<DigitChar(n)>> ELSE NatToText(n \div 10) \o <<DigitChar(n % 10)>>

NumberToText(n) == IF n < 0 THEN <<"-">> \o NatToText(0 - n) ELSE NatToText(n)

(***************************************************************************)
(* JavaScript / JSON values, tagged by their type.                         *)
(*   Undef            undefined, or a key that is not present              *)
(*   Null             null                                                 *)
(*   Str(text)        a string                                             *)
(*   Num(n)           an integer number                                    *)
(*   Flt(n)           the non-integer number n + 0.5                       *)
(*   Bool(b)          a boolean                                            *)
(*   Arr(<<texts>>)   an array of strings                                  *)
(*   Obj(<<pairs>>)   a plain object: <<key text, value>> in insertion     *)
(*                    order                                                *)
(***************************************************************************)
Undef == [t |-> "undefined"]
Null == [t |-> "null"]
Str(s) == [t |-> "string", v |-> s]
Num(n) == [t |-> "number", v |-> n]
Flt(n) == [t |-> "float", v |-> n]
Bool(b) == [t |-> "boolean", v |-> b]
Arr(a) == [t |-> "array", v |-> a]
Obj(o) == [t |-> "object", v |-> o]

\* typeof v === 'number'
IsNumber(v) == v.t \in {"number", "float"}
\* v && typeof v === 'object'
IsObjectLike(v) == v.t \in {"array", "object"}

\* JSON string literal: quotes, with " and \ escaped
RECURSIVE EscapeJson(_)
EscapeJson(s) ==
  IF s = <<>> THEN <<>>
  ELSE (IF Head(s) \in {"\"", "\\"} THEN <<"\\", Head(s)>> ELSE <<Head(s)>>)
       \o EscapeJson(Tail(s))

QuoteJson(s) == <<"\"">> \o EscapeJson(s) \o <<"\"">>

RECURSIVE JoinQuoted(_)
JoinQuoted(a) ==
  IF a = <<>> THEN <<>>
  ELSE IF Len(a) = 1 THEN QuoteJson(a[1])
  ELSE QuoteJson(Head(a)) \o <<",">> \o JoinQuoted(Tail(a))

\* JSON.stringify(v) of a scalar
ScalarJson(v) ==
  CASE v.t = "string" -> QuoteJson(v.v)
    [] v.t = "number" -> NumberToText(v.v)
    [] v.t = "float" -> NumberToText(v.v) \o <<".", "5">>
    [] v.t = "boolean" -> (IF v.v THEN <<"t","r","u","e">> ELSE <<"f","a","l","s","e">>)
    [] v.t = "null" -> <<"n","u","l","l">>
    [] v.t = "array" -> <<"[">> \o JoinQuoted(v.v) \o <<"]">>

RECURSIVE JoinMembers(_)
JoinMembers(o) ==
  IF o = <<>> THEN <<>>
  ELSE LET m == QuoteJson(Head(o)[1]) \o <<":">> \o ScalarJson(Head(o)[2])
       IN IF Len(o) = 1 THEN m ELSE m \o <<",">> \o JoinMembers(Tail(o))

\* JSON.stringify(v): compact, no whitespace
JSONstringify(v) ==
  IF v.t = "object" THEN <<"{">> \o JoinMembers(v.v) \o <<"}">> ELSE ScalarJson(v)

\* Array.prototype.join(","), for an array of strings
RECURSIVE JoinComma(_)
JoinComma(a) ==
  IF a = <<>> THEN <<>>
  ELSE IF Len(a) = 1 THEN a[1]
  ELSE Head(a) \o <<",">> \o JoinComma(Tail(a))

T_objectObject == <<"[","o","b","j","e","c","t"," ","O","b","j","e","c","t","]">>

\* String(v), as URLSearchParams.set applies it
ToStringValue(v) ==
  CASE v.t = "string" -> v.v
    [] v.t = "number" -> NumberToText(v.v)
    [] v.t = "float" -> NumberToText(v.v) \o <<".", "5">>
    [] v.t = "boolean" -> (IF v.v THEN <<"t","r","u","e">> ELSE <<"f","a","l","s","e">>)
    [] v.t = "array" -> JoinComma(v.v)
    [] v.t = "object" -> T_objectObject
    [] v.t = "null" -> <<"n","u","l","l">>
    [] v.t = "undefined" -> <<"u","n","d","e","f","i","n","e","d">>

(***************************************************************************)
(* Argument objects.  A JavaScript argument object is a record whose       *)
(* fields are tagged values; a field that is not there reads as undefined. *)
(***************************************************************************)
\* obj.k
Get(obj, k) == IF k \in DOMAIN obj THEN obj[k] ELSE Undef

\* x && typeof x === 'object', for a parameter that is either an argument
\* object or a tagged scalar
IsArgsObject(x) == "t" \notin DOMAIN x

\* JavaScript truthiness of a tagged value
Truthy(v) ==
  CASE v.t \in {"undefined", "null"} -> FALSE
    [] v.t = "string" -> v.v # <<>>
    [] v.t = "number" -> v.v # 0
    [] v.t = "boolean" -> v.v
    [] OTHER -> TRUE

\* the keys of a sequence of <<key, value>> pairs
KeysOf(pairs) == {pairs[i][1] : i \in 1..Len(pairs)}

\* the value a sequence of <<key, value>> pairs holds for k
ValueOf(pairs, k) == pairs[CHOOSE i \in 1..Len(pairs) : pairs[i][1] = k][2]

(***************************************************************************)
(* Upstream Client, src/api/ckan-client.js                                 *)
(***************************************************************************)
Min(a, b) == IF a < b THEN a ELSE b
Max(a, b) == IF a > b THEN a ELSE b

\* a clamp that has lost its floor: Math.min(v, CONFIG.MAX_ROWS)
ClampRows_NoFloor(v) ==
  IF v.t = "number" THEN Num(Min(v.v, CONFIG.MAX_ROWS))
  ELSE IF v.v >= CONFIG.MAX_ROWS THEN Num(CONFIG.MAX_ROWS) ELSE v

\* Math.min(Math.max(0, v), CONFIG.MAX_ROWS) on a tagged number
ClampRows(v) ==
  IF v.t = "number" THEN Num(Min(Max(0, v.v), CONFIG.MAX_ROWS))
  ELSE IF v.v >= CONFIG.MAX_ROWS THEN Num(CONFIG.MAX_ROWS) ELSE v

\* typeof x === 'number' ? Math.min(Math.max(0, x), CONFIG.MAX_ROWS) : undefined
ClampLimit(x) == IF IsNumber(x) THEN ClampRows(x) ELSE Undef

\* typeof x === 'number' ? Math.max(0, x) : undefined
ClampOffset(x) ==
  IF x.t = "number" THEN Num(Max(0, x.v)) ELSE IF x.t = "float" THEN x ELSE Undef

\* an encoder that has lost its array case
encodeParam_ObjectsOnly(value) ==
  IF value.t = "object" THEN Str(JSONstringify(value)) ELSE value

encodeParam(value) ==
  IF value.t = "array" THEN Str(JSONstringify(value))
  ELSE IF value.t = "object" THEN Str(JSONstringify(value))
  ELSE value

\* the URLSearchParams built from a parameter object; set() stores String(v)
RECURSIVE buildSearchParams(_)
buildSearchParams(params) ==
  IF params = <<>> THEN <<>>
  ELSE LET k == Head(params)[1]
           v == Head(params)[2]
       IN (IF v.t \in {"undefined", "null"} THEN <<>>
           ELSE <<<<k, ToStringValue(encodeParam(v))>>>>)
          \o buildSearchParams(Tail(params))

\* the members JSON.stringify keeps of the object ky is given as json
RECURSIVE JsonBody(_)
JsonBody(json) ==
  IF json = <<>> THEN <<>>
  ELSE (IF Head(json)[2].t = "undefined" THEN <<>> ELSE <<Head(json)>>)
       \o JsonBody(Tail(json))

perRequestTimeout(actionName) ==
  IF actionName = "recently_changed_packages_activity_list"
  THEN CONFIG.TIMEOUT_MS * 2
  ELSE CONFIG.TIMEOUT_MS

\* what a client operation has done when it first suspends or fails:
\* it has issued one HTTP request, or it has thrown
Issued(req) == [kind |-> "request", request |-> req]
Thrown(parts) == [kind |-> "throw", error |-> parts]

getAction(path, params, actionName) ==
  Issued([method |-> "GET", path |-> path, actionName |-> actionName,
          params |-> params, query |-> buildSearchParams(params),
          timeout |-> perRequestTimeout(actionName)])

postAction(path, json, actionName) ==
  Issued([method |-> "POST", path |-> path, actionName |-> actionName,
          params |-> json, body |-> JsonBody(json),
          timeout |-> perRequestTimeout(actionName)])

(***************************************************************************)
(* packageSearch and its two normalizers.                                  *)
(***************************************************************************)
T_orgColon == <<"o","r","g","a","n","i","z","a","t","i","o","n",":">>
T_orgQuote == T_orgColon \o <<"\"">>
T_openOrg == <<"(">> \o T_orgQuote
T_orPublisher == <<"\"", " ", "O", "R", " ", "p","u","b","l","i","s","h","e","r",":","\"">>
T_closeOrg == <<"\"", ")">>
T_matchAll == <<"*", ":", "*">>

\* the last position of the run of non-whitespace characters that starts at i
\* (i - 1 when the character at i is whitespace or past the end): [^\s]*
RECURSIVE NonSpaceEnd(_, _)
NonSpaceEnd(s, i) ==
  IF i > Len(s) \/ IsSpace(s[i]) THEN i - 1 ELSE NonSpaceEnd(s, i + 1)

\* the position of the first double quote at or after i, 0 when there is none
RECURSIVE FirstQuote(_, _)
FirstQuote(s, i) ==
  IF i > Len(s) THEN 0 ELSE IF s[i] = "\"" THEN i ELSE FirstQuote(s, i + 1)

\* fq.replace(/(\borganization:)([^"\s][^\s]*)/g, (_m, p1, p2) => `${p1}"${p2}"`)
\* from position i on
RECURSIVE QuoteOrgFrom(_, _)
QuoteOrgFrom(s, i) ==
  IF i > Len(s) THEN <<>>
  ELSE LET v == i + Len(T_orgColon)
       IN IF /\ WordBoundary(s, i)
             /\ StartsAt(s, i, T_orgColon)
             /\ v <= Len(s)
             /\ s[v] # "\""
             /\ ~IsSpace(s[v])
          THEN LET e == NonSpaceEnd(s, v + 1)
               IN T_orgColon \o <<"\"">> \o Sub(s, v, e) \o <<"\"">>
                  \o QuoteOrgFrom(s, e + 1)
          ELSE <<s[i]>> \o QuoteOrgFrom(s, i + 1)

\* quoted.replace(/\borganization:"([^"]+)"/g,
\*                (_m, val) => `(organization:"${val}" OR publisher:"${val}")`)
\* from position i on
RECURSIVE ExpandOrgFrom(_, _)
ExpandOrgFrom(s, i) ==
  IF i > Len(s) THEN <<>>
  ELSE LET v == i + Len(T_orgQuote)
           j == FirstQuote(s, v)
       IN IF /\ WordBoundary(s, i)
             /\ StartsAt(s, i, T_orgQuote)
             /\ j > v
          THEN LET val == Sub(s, v, j - 1)
               IN T_openOrg \o val \o T_orPublisher \o val \o T_closeOrg
                  \o ExpandOrgFrom(s, j + 1)
          ELSE <<s[i]>> \o ExpandOrgFrom(s, i + 1)

normalizeFq(fq) ==
  IF fq.t # "string" THEN fq
  ELSE Str(ExpandOrgFrom(QuoteOrgFrom(fq.v, 1), 1))

\* a normalizer that has lost its bare-star case
normalizeQ_NoStar(q) ==
  IF q.t \in {"undefined", "null"} \/ q = Str(<<>>) THEN Str(T_matchAll) ELSE q

normalizeQ(q) ==
  IF q.t \in {"undefined", "null"} \/ q = Str(<<>>) THEN Str(T_matchAll)
  ELSE IF q = Str(<<"*">>) THEN Str(T_matchAll)
  ELSE q

packageSearch(args) ==
  LET rows == IF IsNumber(Get(args, "rows")) THEN ClampRows(Get(args, "rows"))
              ELSE Num(CONFIG.DEFAULT_ROWS)
      params == << <<"q", normalizeQ(Get(args, "q"))>>,
                   <<"fq", normalizeFq(Get(args, "fq"))>>,
                   <<"sort", Get(args, "sort")>>,
                   <<"rows", rows>>,
                   <<"start", Get(args, "start")>>,
                   <<"facet.field", Get(args, "facetField")>>,
                   <<"facet.limit", Get(args, "facetLimit")>> >>
  IN getAction("package_search", params, "package_search")

\* (x && typeof x === 'object') ? x.id : x
IdOf(x) == IF IsArgsObject(x) THEN Get(x, "id") ELSE x

packageShow(idOrName) ==
  getAction("package_show", << <<"id", IdOf(idOrName)>> >>, "package_show")

packageList(args) ==
  getAction("package_list",
            << <<"offset", ClampOffset(Get(args, "offset"))>>,
               <<"limit", ClampLimit(Get(args, "limit"))>>,
               <<"since", Get(args, "since")>> >>,
            "package_list")

currentPackageListWithResources(args) ==
  getAction("current_package_list_with_resources",
            << <<"offset", ClampOffset(Get(args, "offset"))>>,
               <<"limit", ClampLimit(Get(args, "limit"))>> >>,
            "current_package_list_with_resources")

packageAutocomplete(argsOrQ, limit) ==
  LET q == IF IsArgsObject(argsOrQ) THEN Get(argsOrQ, "q") ELSE argsOrQ
      lim == IF IsArgsObject(argsOrQ) THEN Get(argsOrQ, "limit") ELSE limit
  IN getAction("package_autocomplete",
               << <<"q", q>>, <<"limit", ClampLimit(lim)>> >>,
               "package_autocomplete")

packageActivityList(args) ==
  getAction("package_activity_list",
            << <<"id", Get(args, "id")>>,
               <<"limit", ClampLimit(Get(args, "limit"))>>,
               <<"offset", ClampOffset(Get(args, "offset"))>> >>,
            "package_activity_list")

\* Date.prototype.toISOString of a time given in milliseconds: the text
\* that names this instant
toISOString(ms) == <<"ISO(">> \o NatToText(ms) \o <<")">>

\* a default window that starts at the current time
defaultSince_Now == toISOString(now)

\* new Date(Date.now() - 1 * 60 * 60 * 1000).toISOString()
defaultSince == toISOString(now - 1 * 60 * 60 * 1000)

recentlyChangedPackagesActivityList(args) ==
  LET since == IF Truthy(Get(args, "since_time")) THEN Get(args, "since_time")
               ELSE Str(defaultSince)
  IN getAction("recently_changed_packages_activity_list",
               << <<"since_time", since>>,
                  <<"limit", ClampLimit(Get(args, "limit"))>>,
                  <<"offset", ClampOffset(Get(args, "offset"))>> >>,
               "recently_changed_packages_activity_list")

(***************************************************************************)
(* Organizations, groups, tags, resources, status.                         *)
(***************************************************************************)
organizationList(args) ==
  getAction("organization_list",
            << <<"all_fields", Get(args, "all_fields")>>,
               <<"limit", ClampLimit(Get(args, "limit"))>>,
               <<"offset", Get(args, "offset")>> >>,
            "organization_list")

organizationShow(id) ==
  getAction("organization_show", << <<"id", IdOf(id)>> >>, "organization_show")

groupList(args) ==
  getAction("group_list",
            << <<"order_by", Get(args, "order_by")>>,
               <<"limit", ClampLimit(Get(args, "limit"))>>,
               <<"offset", Get(args, "offset")>>,
               <<"all_fields", Get(args, "all_fields")>> >>,
            "group_list")

groupShow(id) ==
  getAction("group_show", << <<"id", IdOf(id)>> >>, "group_show")

tagList(args) ==
  getAction("tag_list", << <<"query", Get(args, "query")>> >>, "tag_list")

\* the request of tagAutocomplete; the response is normalized on return
tagAutocomplete(argsOrQ, limit) ==
  LET q == IF IsArgsObject(argsOrQ) THEN Get(argsOrQ, "q") ELSE argsOrQ
      lim == IF IsArgsObject(argsOrQ) THEN Get(argsOrQ, "limit") ELSE limit
  IN getAction("tag_autocomplete",
               << <<"q", q>>, <<"limit", ClampLimit(lim)>> >>,
               "tag_autocomplete")

licenseList == getAction("license_list", <<>>, "license_list")

vocabularyList == getAction("vocabulary_list", <<>>, "vocabulary_list")

vocabularyShow(id) ==
  getAction("vocabulary_show", << <<"id", IdOf(id)>> >>, "vocabulary_show")

tagShow(id) ==
  getAction("tag_show", << <<"id", IdOf(id)>> >>, "tag_show")

resourceShow(id) ==
  getAction("resource_show", << <<"id", IdOf(id)>> >>, "resource_show")

resourceViewShow(id) ==
  getAction("resource_view_show", << <<"id", IdOf(id)>> >>, "resource_view_show")

resourceViewList(argsOrId) ==
  LET resId == IF IsArgsObject(argsOrId)
               THEN (IF Truthy(Get(argsOrId, "resource_id"))
                     THEN Get(argsOrId, "resource_id")
                     ELSE Get(argsOrId, "id"))
               ELSE argsOrId
  IN getAction("resource_view_list", << <<"id", resId>> >>, "resource_view_list")

statusShow == getAction("status_show", <<>>, "status_show")

helpShow(name) ==
  getAction("help_show", << <<"name", name>> >>, "help_show")

(***************************************************************************)
(* Datastore.                                                              *)
(***************************************************************************)
datastoreInfo(id, include_private) ==
  getAction("datastore_info",
            << <<"id", id>>, <<"include_private", include_private>> >>,
            "datastore_info")

\* a payload that hands include_total on as the caller gave it
includeTotal_PassedOn(include_total) == include_total

\* include_total: typeof include_total === 'boolean' ? include_total : false
includeTotal(include_total) ==
  IF include_total.t = "boolean" THEN include_total ELSE Bool(FALSE)

\* a datastoreSearch that ignores a field list when choosing the transport
usePost_NoFields(filters, q, fields) ==
  \/ IsObjectLike(filters)
  \/ IsObjectLike(q)

\* const usePost = (filters && typeof filters === 'object') ||
\*   (q && typeof q === 'object') || (fields && Array.isArray(fields))
usePost(filters, q, fields) ==
  \/ IsObjectLike(filters)
  \/ IsObjectLike(q)
  \/ fields.t = "array"

datastoreSearch(args) ==
  LET limit == Get(args, "limit")
      include_total == Get(args, "include_total")
      filters == Get(args, "filters")
      q == Get(args, "q")
      fields == Get(args, "fields")
      safeLimit == IF IsNumber(limit) THEN ClampRows(limit)
                   ELSE Num(CONFIG.DEFAULT_ROWS)
      payload == << <<"resource_id", Get(args, "resource_id")>>,
                    <<"q", q>>,
                    <<"filters", filters>>,
                    <<"fields", fields>>,
                    <<"sort", Get(args, "sort")>>,
                    <<"language", Get(args, "language")>>,
                    <<"include_total", includeTotal(include_total)>>,
                    <<"limit", safeLimit>>,
                    <<"offset", Get(args, "offset")>>,
                    <<"distinct", Get(args, "distinct")>>,
                    <<"plain", Get(args, "plain")>>,
                    <<"full_text", Get(args, "full_text")>> >>
  IN IF usePost(filters, q, fields)
     THEN postAction("datastore_search", payload, "datastore_search")
     ELSE getAction("datastore_search", payload, "datastore_search")

ForbiddenVerbs ==
  { <<"d","r","o","p">>, <<"d","e","l","e","t","e">>, <<"u","p","d","a","t","e">>,
    <<"i","n","s","e","r","t">>, <<"a","l","t","e","r">>, <<"c","r","e","a","t","e">>,
    <<"g","r","a","n","t">>, <<"r","e","v","o","k","e">> }

\* the test without its i flag
forbiddenTest_CaseSensitive(sql) ==
  \E verb \in ForbiddenVerbs : \E i \in 1..Len(sql) :
    /\ StartsAt(sql, i, verb)
    /\ WordBoundary(sql, i)
    /\ WordBoundary(sql, i + Len(verb))

\* /\b(drop|delete|update|insert|alter|create|grant|revoke)\b/i.test(sql)
forbiddenTest(sql) ==
  \E verb \in ForbiddenVerbs : \E i \in 1..Len(sql) :
    /\ StartsAt(ToLower(sql), i, verb)
    /\ WordBoundary(sql, i)
    /\ WordBoundary(sql, i + Len(verb))

datastoreSearchSql(argsOrSql) ==
  LET sql == IF IsArgsObject(argsOrSql) THEN Get(argsOrSql, "sql") ELSE argsOrSql
  IN IF ~CONFIG.ENABLE_SQL
     THEN Thrown(<<"[CKAN datastore_search_sql] Disabled by server configuration (ENABLE_SQL=false)">>)
     ELSE IF forbiddenTest(sql.v)
     THEN Thrown(<<"[CKAN datastore_search_sql] Forbidden SQL verb detected">>)
     ELSE postAction("datastore_search_sql", << <<"sql", sql>> >>,
                     "datastore_search_sql")

(***************************************************************************)
(* Upstream replies and error mapping.                                     *)
(*   [kind |-> "ok", body]        2xx, body parsed as JSON                 *)
(*   [kind |-> "http", status, body, message]                              *)
(*                                ky's HTTPError: a response exists        *)
(*   [kind |-> "timeout" | "network" | "badjson", message]                 *)
(*                                no response object on the exception      *)
(* An error body is described by the fields mapError reads; "" stands for  *)
(* a value that is undefined or empty (both falsy).                        *)
(***************************************************************************)
ErrorBodies ==
  { [text |-> "{\"error\":{\"message\":\"Not found\"}}", errorType |-> "object",
     errorMessage |-> "Not found", errorText |-> "{\"message\":\"Not found\"}"],
    [text |-> "{\"error\":{\"__type\":\"Validation Error\"}}", errorType |-> "object",
     errorMessage |-> "", errorText |-> "{\"__type\":\"Validation Error\"}"],
    [text |-> "{\"error\":\"Access denied\"}", errorType |-> "string",
     errorMessage |-> "", errorText |-> "Access denied"],
    [text |-> "Bad Gateway", errorType |-> "none",
     errorMessage |-> "", errorText |-> ""],
    [text |-> "", errorType |-> "none",
     errorMessage |-> "", errorText |-> ""] }

HttpStatuses == {"404", "500"}

FailureReplies ==
  { [kind |-> "http", status |-> s, body |-> b,
     message |-> "Request failed with status code " \o s]
      : s \in HttpStatuses, b \in ErrorBodies }
  \cup { [kind |-> "timeout", message |-> "Request timed out"],
         [kind |-> "network", message |-> "fetch failed"],
         [kind |-> "badjson", message |-> "Unexpected token < in JSON"] }

\* the first truthy text of a sequence, "" when there is none: a || b || ...
RECURSIVE FirstTruthy(_)
FirstTruthy(texts) ==
  IF texts = <<>> THEN ""
  ELSE IF Head(texts) # "" THEN Head(texts) ELSE FirstTruthy(Tail(texts))

\* the message of the Error mapError returns, as the parts of its template
mapError(e, actionName, url) ==
  IF e.kind = "http"
  THEN LET errFieldString == IF e.body.errorType = "none" THEN "" ELSE e.body.errorText
           message == FirstTruthy(<<e.body.errorMessage, errFieldString, e.body.text,
                                    e.message, "Unknown error">>)
       IN <<"[CKAN ", actionName, "] HTTP ", e.status, " - ", message, "\nURL: ", url>>
  ELSE <<"[CKAN ", actionName, "] ", FirstTruthy(<<e.message, "String(e)">>)>>

\* response bodies of a 2xx reply: success flag and result
List(items) == [t |-> "list", v |-> items]

T_a == <<"a">>
T_b == <<"b">>
T_name == <<"n","a","m","e">>

OkBodies ==
  { [success |-> TRUE, result |-> List(<<Str(T_a), Obj(<< <<T_name, Str(T_b)>> >>)>>)],
    [success |-> TRUE, result |-> Obj(<< <<T_name, Str(T_a)>> >>)],
    [success |-> FALSE, result |-> Null] }

OkReplies == { [kind |-> "ok", body |-> b] : b \in OkBodies }

Replies == OkReplies \cup FailureReplies

\* a normalization that wraps every item, objects too
NormalizeTagResult_WrapsAll(res) ==
  IF res.result.t = "list"
  THEN [res EXCEPT !.result =
          List([i \in 1..Len(res.result.v) |->
                  Obj(<< <<T_name, res.result.v[i]>> >>)])]
  ELSE res

\* tagAutocomplete's normalization of a response
NormalizeTagResult(res) ==
  IF res.result.t = "list"
  THEN [res EXCEPT !.result =
          List([i \in 1..Len(res.result.v) |->
                  IF res.result.v[i].t = "string"
                  THEN Obj(<< <<T_name, res.result.v[i]>> >>)
                  ELSE res.result.v[i]])]
  ELSE res

\* what a client operation does when the reply to its request arrives:
\* it returns the parsed body, or throws the mapped error
Returned(value) == [kind |-> "return", value |-> value]

\* a client that applies validateCkanResponse to the parsed body: a body
\* whose success flag is false is thrown, a successful one is unwrapped
ClientResume_Validating(req, reply) ==
  IF reply.kind = "ok"
  THEN IF reply.body.success THEN Returned(reply.body.result)
       ELSE Thrown(<<"CKAN API error: ", "Unknown error">>)
  ELSE Thrown(mapError(reply, req.actionName, req.path))

ClientResume(req, reply) ==
  IF reply.kind = "ok"
  THEN Returned(IF req.actionName = "tag_autocomplete"
                THEN NormalizeTagResult(reply.body)
                ELSE reply.body)
  ELSE Thrown(mapError(reply, req.actionName, req.path))

(***************************************************************************)
(* Validation Layer: the Zod schemas of the five tool modules.             *)
(* A schema is [id, strict, shape]; id stands for the object's identity    *)
(* (the modules compare schemas with ===), shape maps each declared key to *)
(* its type and optionality.  z.object() without .strict() strips keys it  *)
(* does not declare.                                                       *)
(***************************************************************************)
Opt(ty) == [ty |-> ty, optional |-> TRUE]
Req(ty) == [ty |-> ty, optional |-> FALSE]

\* a validator whose positive integers admit zero
ZodAccepts_ZeroPositive(ty, v) ==
  CASE ty = "string" -> v.t = "string"
    [] ty = "string.min1" -> v.t = "string" /\ Len(v.v) >= 1
    [] ty = "int.positive" -> v.t = "number" /\ v.v >= 0
    [] ty = "int.nonnegative" -> v.t = "number" /\ v.v >= 0
    [] ty = "boolean" -> v.t = "boolean"
    [] ty = "string[]" -> v.t = "array"
    [] ty = "string|string[]" -> v.t \in {"string", "array"}
    [] ty = "string|record" -> v.t \in {"string", "object"}
    [] ty = "record" -> v.t = "object"

\* does a Zod type accept a value that is present
ZodAccepts(ty, v) ==
  CASE ty = "string" -> v.t = "string"
    [] ty = "string.min1" -> v.t = "string" /\ Len(v.v) >= 1
    [] ty = "int.positive" -> v.t = "number" /\ v.v > 0
    [] ty = "int.nonnegative" -> v.t = "number" /\ v.v >= 0
    [] ty = "boolean" -> v.t = "boolean"
    [] ty = "string[]" -> v.t = "array"
    [] ty = "string|string[]" -> v.t \in {"string", "array"}
    [] ty = "string|record" -> v.t \in {"string", "object"}
    [] ty = "record" -> v.t = "object"

\* schema.safeParse(args): success flag and the parsed data
safeParse(schema, args) ==
  LET declared == DOMAIN schema.shape
      fieldsOk == \A k \in declared :
                    IF Get(args, k).t = "undefined"
                    THEN schema.shape[k].optional
                    ELSE ZodAccepts(schema.shape[k].ty, args[k])
      unknown == {k \in DOMAIN args : k \notin declared /\ args[k].t # "undefined"}
  IN [success |-> fieldsOk /\ (schema.strict => unknown = {}),
      data |-> [k \in {x \in DOMAIN args : x \in declared} |-> args[k]]]

\* tools/catalog.js
PackageSearchSchema ==
  [id |-> "PackageSearchSchema", strict |-> FALSE,
   shape |-> [q |-> Opt("string"), fq |-> Opt("string|string[]"),
              sort |-> Opt("string"), rows |-> Opt("int.positive"),
              start |-> Opt("int.nonnegative"), facetField |-> Opt("string[]"),
              facetLimit |-> Opt("int.positive")]]
PackageShowSchema ==
  [id |-> "PackageShowSchema", strict |-> FALSE, shape |-> [id |-> Req("string")]]
PackageListSchema ==
  [id |-> "PackageListSchema", strict |-> FALSE,
   shape |-> [offset |-> Opt("int.nonnegative"), limit |-> Opt("int.positive"),
              since |-> Opt("string")]]
CurrentPackageListWithResourcesSchema ==
  [id |-> "CurrentPackageListWithResourcesSchema", strict |-> FALSE,
   shape |-> [offset |-> Opt("int.nonnegative"), limit |-> Opt("int.positive")]]
PackageAutocompleteSchema ==
  [id |-> "PackageAutocompleteSchema", strict |-> FALSE,
   shape |-> [q |-> Req("string"), limit |-> Opt("int.positive")]]
PackageActivityListSchema ==
  [id |-> "PackageActivityListSchema", strict |-> FALSE,
   shape |-> [id |-> Req("string"), limit |-> Opt("int.positive"),
              offset |-> Opt("int.nonnegative")]]
RecentlyChangedPackagesActivityListSchema ==
  [id |-> "RecentlyChangedPackagesActivityListSchema", strict |-> FALSE,
   shape |-> [since_time |-> Opt("string"), limit |-> Opt("int.positive"),
              offset |-> Opt("int.nonnegative")]]

\* tools/org-taxonomy.js
OrganizationListSchema ==
  [id |-> "OrganizationListSchema", strict |-> FALSE,
   shape |-> [all_fields |-> Opt("boolean"), limit |-> Opt("int.positive"),
              offset |-> Opt("int.nonnegative")]]
OrganizationShowSchema ==
  [id |-> "OrganizationShowSchema", strict |-> FALSE, shape |-> [id |-> Req("string")]]
GroupListSchema ==
  [id |-> "GroupListSchema", strict |-> FALSE,
   shape |-> [order_by |-> Opt("string"), limit |-> Opt("int.positive"),
              offset |-> Opt("int.nonnegative"), all_fields |-> Opt("boolean")]]
GroupShowSchema ==
  [id |-> "GroupShowSchema", strict |-> FALSE, shape |-> [id |-> Req("string")]]
TagListSchema ==
  [id |-> "TagListSchema", strict |-> FALSE, shape |-> [query |-> Opt("string")]]
TagAutocompleteSchema ==
  [id |-> "TagAutocompleteSchema", strict |-> FALSE,
   shape |-> [q |-> Req("string"), limit |-> Opt("int.positive")]]
LicenseListSchema == [id |-> "LicenseListSchema", strict |-> TRUE, shape |-> <<>>]
VocabularyListSchema == [id |-> "VocabularyListSchema", strict |-> TRUE, shape |-> <<>>]
VocabularyShowSchema ==
  [id |-> "VocabularyShowSchema", strict |-> FALSE, shape |-> [id |-> Req("string")]]
TagShowSchema ==
  [id |-> "TagShowSchema", strict |-> FALSE, shape |-> [id |-> Req("string")]]

\* tools/datastore.js
DatastoreInfoSchema ==
  [id |-> "DatastoreInfoSchema", strict |-> FALSE,
   shape |-> [id |-> Req("string"), include_private |-> Opt("boolean")]]
DatastoreSearchSchema ==
  [id |-> "DatastoreSearchSchema", strict |-> FALSE,
   shape |-> [resource_id |-> Req("string"), q |-> Opt("string|record"),
              filters |-> Opt("record"), fields |-> Opt("string[]"),
              sort |-> Opt("string"), language |-> Opt("string"),
              include_total |-> Opt("boolean"), limit |-> Opt("int.positive"),
              offset |-> Opt("int.nonnegative"), distinct |-> Opt("boolean"),
              plain |-> Opt("boolean"), full_text |-> Opt("boolean")]]
DatastoreSearchSqlSchema ==
  [id |-> "DatastoreSearchSqlSchema", strict |-> FALSE,
   shape |-> [sql |-> Req("string.min1")]]

\* tools/resources.js
ResourceIdSchema ==
  [id |-> "ResourceIdSchema", strict |-> FALSE, shape |-> [id |-> Req("string")]]
ResourceViewListSchema ==
  [id |-> "ResourceViewListSchema", strict |-> FALSE,
   shape |-> [resource_id |-> Req("string")]]

\* tools/status.js
HelpShowSchema ==
  [id |-> "HelpShowSchema", strict |-> FALSE, shape |-> [name |-> Req("string")]]

(***************************************************************************)
(* Tool Registry: the advertised input shapes and the tool descriptors.    *)
(* A shape is [properties, required, additionalProperties]; properties     *)
(* maps each advertised key to the JSON types it admits.                   *)
(***************************************************************************)
Shape(props, req) ==
  [properties |-> props, required |-> req, additionalProperties |-> FALSE]

\* { type: 'object' }: the fall-through of the per-module converters
OpenShape == [properties |-> <<>>, required |-> {}, additionalProperties |-> TRUE]

OnlyId == Shape([id |-> {"string"}], {"id"})

\* tools/catalog.js
toJsonSchema(zodSchema) ==
  CASE zodSchema.id = "PackageSearchSchema" ->
         Shape([q |-> {"string"}, fq |-> {"string", "array"}, sort |-> {"string"},
                rows |-> {"number"}, start |-> {"number"}, facetField |-> {"array"},
                facetLimit |-> {"number"}], {})
    [] zodSchema.id = "PackageShowSchema" -> OnlyId
    [] zodSchema.id = "PackageListSchema" ->
         Shape([offset |-> {"number"}, limit |-> {"number"}, since |-> {"string"}], {})
    [] zodSchema.id = "CurrentPackageListWithResourcesSchema" ->
         Shape([offset |-> {"number"}, limit |-> {"number"}], {})
    [] zodSchema.id = "PackageAutocompleteSchema" ->
         Shape([q |-> {"string"}, limit |-> {"number"}], {"q"})
    [] zodSchema.id = "PackageActivityListSchema" ->
         Shape([id |-> {"string"}, limit |-> {"number"}, offset |-> {"number"}], {"id"})
    [] zodSchema.id = "RecentlyChangedPackagesActivityListSchema" ->
         Shape([since_time |-> {"string"}, limit |-> {"number"}, offset |-> {"number"}], {})
    [] OTHER -> OpenShape

getCatalogTools ==
  << [name |-> "package_search", inputSchema |-> toJsonSchema(PackageSearchSchema)],
     [name |-> "package_show", inputSchema |-> toJsonSchema(PackageShowSchema)],
     [name |-> "package_list", inputSchema |-> toJsonSchema(PackageListSchema)],
     [name |-> "current_package_list_with_resources",
      inputSchema |-> toJsonSchema(CurrentPackageListWithResourcesSchema)],
     [name |-> "package_autocomplete",
      inputSchema |-> toJsonSchema(PackageAutocompleteSchema)],
     [name |-> "package_activity_list",
      inputSchema |-> toJsonSchema(PackageActivityListSchema)],
     [name |-> "recently_changed_packages_activity_list",
      inputSchema |-> toJsonSchema(RecentlyChangedPackagesActivityListSchema)] >>

\* tools/org-taxonomy.js
orgJsonSchema(schema) ==
  CASE schema.id = "OrganizationListSchema" ->
         Shape([all_fields |-> {"boolean"}, limit |-> {"number"},
                offset |-> {"number"}], {})
    [] schema.id = "OrganizationShowSchema" -> OnlyId
    [] schema.id = "GroupListSchema" ->
         Shape([order_by |-> {"string"}, limit |-> {"number"}, offset |-> {"number"},
                all_fields |-> {"boolean"}], {})
    [] schema.id = "GroupShowSchema" -> OnlyId
    [] schema.id = "TagListSchema" -> Shape([query |-> {"string"}], {})
    [] schema.id = "TagAutocompleteSchema" ->
         Shape([q |-> {"string"}, limit |-> {"number"}], {"q"})
    [] schema.id = "LicenseListSchema" -> Shape(<<>>, {})
    [] schema.id = "VocabularyListSchema" -> Shape(<<>>, {})
    [] schema.id = "VocabularyShowSchema" -> OnlyId
    [] schema.id = "TagShowSchema" -> OnlyId
    [] OTHER -> OpenShape

getOrgTaxonomyTools ==
  << [name |-> "organization_list", inputSchema |-> orgJsonSchema(OrganizationListSchema)],
     [name |-> "organization_show", inputSchema |-> orgJsonSchema(OrganizationShowSchema)],
     [name |-> "group_list", inputSchema |-> orgJsonSchema(GroupListSchema)],
     [name |-> "group_show", inputSchema |-> orgJsonSchema(GroupShowSchema)],
     [name |-> "tag_list", inputSchema |-> orgJsonSchema(TagListSchema)],
     [name |-> "tag_autocomplete", inputSchema |-> orgJsonSchema(TagAutocompleteSchema)],
     [name |-> "license_list", inputSchema |-> orgJsonSchema(LicenseListSchema)],
     [name |-> "vocabulary_list", inputSchema |-> orgJsonSchema(VocabularyListSchema)],
     [name |-> "vocabulary_show", inputSchema |-> orgJsonSchema(VocabularyShowSchema)],
     [name |-> "tag_show", inputSchema |-> orgJsonSchema(TagShowSchema)] >>

\* tools/datastore.js
datastoreJsonSchema(schema) ==
  CASE schema.id = "DatastoreInfoSchema" ->
         Shape([id |-> {"string"}, include_private |-> {"boolean"}], {"id"})
    [] schema.id = "DatastoreSearchSchema" ->
         Shape([resource_id |-> {"string"}, q |-> {"string", "object"},
                filters |-> {"object"}, fields |-> {"array"}, sort |-> {"string"},
                language |-> {"string"}, include_total |-> {"boolean"},
                limit |-> {"number"}, offset |-> {"number"}, distinct |-> {"boolean"},
                plain |-> {"boolean"}, full_text |-> {"boolean"}], {"resource_id"})
    [] schema.id = "DatastoreSearchSqlSchema" -> Shape([sql |-> {"string"}], {"sql"})
    [] OTHER -> OpenShape

getDatastoreTools ==
  << [name |-> "datastore_info", inputSchema |-> datastoreJsonSchema(DatastoreInfoSchema)],
     [name |-> "datastore_search",
      inputSchema |-> datastoreJsonSchema(DatastoreSearchSchema)],
     [name |-> "datastore_search_sql",
      inputSchema |-> datastoreJsonSchema(DatastoreSearchSqlSchema)] >>

\* tools/resources.js
resourcesJsonSchema(schema) ==
  CASE schema.id = "ResourceIdSchema" -> OnlyId
    [] schema.id = "ResourceViewListSchema" ->
         Shape([resource_id |-> {"string"}], {"resource_id"})
    [] OTHER -> OpenShape

getResourcesTools ==
  << [name |-> "resource_show", inputSchema |-> resourcesJsonSchema(ResourceIdSchema)],
     [name |-> "resource_view_show", inputSchema |-> resourcesJsonSchema(ResourceIdSchema)],
     [name |-> "resource_view_list",
      inputSchema |-> resourcesJsonSchema(ResourceViewListSchema)] >>

\* tools/status.js; status_show is described by jsonSchema(null)
NoSchema == [id |-> "null"]

statusJsonSchema(schema) ==
  IF schema.id = "HelpShowSchema" THEN Shape([name |-> {"string"}], {"name"})
  ELSE Shape(<<>>, {})

getStatusTools ==
  << [name |-> "status_show", inputSchema |-> statusJsonSchema(NoSchema)],
     [name |-> "help_show", inputSchema |-> statusJsonSchema(HelpShowSchema)] >>

\* an aggregate that leaves out the SQL tool while SQL is disabled
toolDefs_EnabledOnly ==
  LET all == getCatalogTools \o getOrgTaxonomyTools \o getDatastoreTools
             \o getResourcesTools \o getStatusTools
      Enabled(d) == d.name # "datastore_search_sql" \/ CONFIG.ENABLE_SQL
  IN SelectSeq(all, Enabled)

\* the entry point's aggregate
toolDefs ==
  getCatalogTools \o getOrgTaxonomyTools \o getDatastoreTools
  \o getResourcesTools \o getStatusTools

ToolNames == {toolDefs[i].name : i \in 1..Len(toolDefs)}

\* the advertised input shape of a registered tool
InputShapeOf(name) ==
  toolDefs[CHOOSE i \in 1..Len(toolDefs) : toolDefs[i].name = name].inputSchema

(***************************************************************************)
(* Result envelopes.  The text of an item is either a message (the parts   *)
(* of a template literal) or the JSON.stringify(data, null, 2) rendering   *)
(* of a value.                                                             *)
(***************************************************************************)
Message(parts) == [kind |-> "message", parts |-> parts]
JsonText(data) == [kind |-> "json", indent |-> 2, value |-> data]
TextItem(text) == [type |-> "text", text |-> text]

ErrorEnvelope(parts) == [isError |-> TRUE, content |-> <<TextItem(Message(parts))>>]
\* a success envelope that serializes the result member only
SuccessEnvelope_ResultOnly(data) == [content |-> <<TextItem(JsonText(data.result))>>]

\* return { content: [{ type: 'text', text: JSON.stringify(data, null, 2) }] }
SuccessEnvelope(data) == [content |-> <<TextItem(JsonText(data))>>]

\* String(e) of an Error whose message has these parts
ErrorToString(parts) == <<"Error: ">> \o parts

\* the message of a ZodError, as one symbol
ZodMessage == "ZodError.message"

(***************************************************************************)
(* Tool handlers.  A handler runs until it returns an envelope or suspends *)
(* on the client's HTTP request:                                           *)
(*   validation  "passed" | "failed" | "none"                              *)
(*   client      the client operations it has called                       *)
(*   out         [kind |-> "envelope", envelope] or                        *)
(*               [kind |-> "request", request]                             *)
(***************************************************************************)
Finished(envelope) == [kind |-> "envelope", envelope |-> envelope]

\* try { data = await op(...); return {content: ...} } catch (e) { ... },
\* up to the operation's first suspension
AfterCall(c) ==
  IF c.kind = "throw" THEN Finished(ErrorEnvelope(ErrorToString(c.error))) ELSE c

\* const parsed = Schema.safeParse(args || {}); if (!parsed.success) return {...};
\* then the call of the client operation on the parsed data, whose outcome
\* is call
Handle(parsed, prefix, opName, call) ==
  IF ~parsed.success
  THEN [validation |-> "failed", client |-> <<>>,
        out |-> Finished(ErrorEnvelope(prefix \o <<ZodMessage>>))]
  ELSE [validation |-> "passed", client |-> <<opName>>, out |-> AfterCall(call)]

InvalidFor(name) == <<"Invalid arguments for ", name, ": ">>

CatalogHandlerNames ==
  {"package_search", "package_show", "package_list",
   "current_package_list_with_resources", "package_autocomplete",
   "package_activity_list", "recently_changed_packages_activity_list"}

getCatalogHandlers(name, args) ==
  CASE name = "package_search" ->
         (LET d == safeParse(PackageSearchSchema, args).data
          IN Handle(safeParse(PackageSearchSchema, args), InvalidFor(name), "packageSearch",
                    packageSearch(d)))
    [] name = "package_show" ->
         (LET d == safeParse(PackageShowSchema, args).data
          IN Handle(safeParse(PackageShowSchema, args), InvalidFor(name), "packageShow",
                    packageShow(Get(d, "id"))))
    [] name = "package_list" ->
         (LET d == safeParse(PackageListSchema, args).data
          IN Handle(safeParse(PackageListSchema, args), InvalidFor(name), "packageList",
                    packageList(d)))
    [] name = "current_package_list_with_resources" ->
         (LET d == safeParse(CurrentPackageListWithResourcesSchema, args).data
          IN Handle(safeParse(CurrentPackageListWithResourcesSchema, args), InvalidFor(name), "currentPackageListWithResources",
                    currentPackageListWithResources(d)))
    [] name = "package_autocomplete" ->
         (LET d == safeParse(PackageAutocompleteSchema, args).data
          IN Handle(safeParse(PackageAutocompleteSchema, args), InvalidFor(name), "packageAutocomplete",
                    packageAutocomplete(Get(d, "q"), Get(d, "limit"))))
    [] name = "package_activity_list" ->
         (LET d == safeParse(PackageActivityListSchema, args).data
          IN Handle(safeParse(PackageActivityListSchema, args), InvalidFor(name), "packageActivityList",
                    packageActivityList(d)))
    [] name = "recently_changed_packages_activity_list" ->
         (LET d == safeParse(RecentlyChangedPackagesActivityListSchema, args).data
          IN Handle(safeParse(RecentlyChangedPackagesActivityListSchema, args), InvalidFor(name), "recentlyChangedPackagesActivityList",
                    recentlyChangedPackagesActivityList(d)))

OrgTaxonomyHandlerNames ==
  {"organization_list", "organization_show", "group_list", "group_show", "tag_list",
   "tag_autocomplete", "license_list", "vocabulary_list", "vocabulary_show", "tag_show"}

getOrgTaxonomyHandlers(name, args) ==
  CASE name = "organization_list" ->
         (LET d == safeParse(OrganizationListSchema, args).data
          IN Handle(safeParse(OrganizationListSchema, args), <<>>, "organizationList",
                    organizationList(d)))
    [] name = "organization_show" ->
         (LET d == safeParse(OrganizationShowSchema, args).data
          IN Handle(safeParse(OrganizationShowSchema, args), <<>>, "organizationShow",
                    organizationShow(Get(d, "id"))))
    [] name = "group_list" ->
         (LET d == safeParse(GroupListSchema, args).data
          IN Handle(safeParse(GroupListSchema, args), <<>>, "groupList",
                    groupList(d)))
    [] name = "group_show" ->
         (LET d == safeParse(GroupShowSchema, args).data
          IN Handle(safeParse(GroupShowSchema, args), <<>>, "groupShow",
                    groupShow(Get(d, "id"))))
    [] name = "tag_list" ->
         (LET d == safeParse(TagListSchema, args).data
          IN Handle(safeParse(TagListSchema, args), <<>>, "tagList",
                    tagList(d)))
    [] name = "tag_autocomplete" ->
         (LET d == safeParse(TagAutocompleteSchema, args).data
          IN Handle(safeParse(TagAutocompleteSchema, args), <<>>, "tagAutocomplete",
                    tagAutocomplete(Get(d, "q"), Get(d, "limit"))))
    [] name = "license_list" ->
         (LET d == safeParse(LicenseListSchema, args).data
          IN Handle(safeParse(LicenseListSchema, args), <<>>, "licenseList",
                    licenseList))
    [] name = "vocabulary_list" ->
         (LET d == safeParse(VocabularyListSchema, args).data
          IN Handle(safeParse(VocabularyListSchema, args), <<>>, "vocabularyList",
                    vocabularyList))
    [] name = "vocabulary_show" ->
         (LET d == safeParse(VocabularyShowSchema, args).data
          IN Handle(safeParse(VocabularyShowSchema, args), <<>>, "vocabularyShow",
                    vocabularyShow(Get(d, "id"))))
    [] name = "tag_show" ->
         (LET d == safeParse(TagShowSchema, args).data
          IN Handle(safeParse(TagShowSchema, args), <<>>, "tagShow",
                    tagShow(Get(d, "id"))))

DatastoreHandlerNames == {"datastore_info", "datastore_search", "datastore_search_sql"}

getDatastoreHandlers(name, args) ==
  CASE name = "datastore_info" ->
         (LET d == safeParse(DatastoreInfoSchema, args).data
          IN Handle(safeParse(DatastoreInfoSchema, args), <<>>, "datastoreInfo",
                    datastoreInfo(Get(d, "id"), Get(d, "include_private"))))
    [] name = "datastore_search" ->
         (LET d == safeParse(DatastoreSearchSchema, args).data
          IN Handle(safeParse(DatastoreSearchSchema, args), <<>>, "datastoreSearch",
                    datastoreSearch(d)))
    [] name = "datastore_search_sql" ->
         (LET d == safeParse(DatastoreSearchSqlSchema, args).data
          IN Handle(safeParse(DatastoreSearchSqlSchema, args), <<>>, "datastoreSearchSql",
                    datastoreSearchSql(Get(d, "sql"))))

ResourcesHandlerNames == {"resource_show", "resource_view_show", "resource_view_list"}

getResourcesHandlers(name, args) ==
  CASE name = "resource_show" ->
         (LET d == safeParse(ResourceIdSchema, args).data
          IN Handle(safeParse(ResourceIdSchema, args), <<>>, "resourceShow",
                    resourceShow(Get(d, "id"))))
    [] name = "resource_view_show" ->
         (LET d == safeParse(ResourceIdSchema, args).data
          IN Handle(safeParse(ResourceIdSchema, args), <<>>, "resourceViewShow",
                    resourceViewShow(Get(d, "id"))))
    [] name = "resource_view_list" ->
         (LET d == safeParse(ResourceViewListSchema, args).data
          IN Handle(safeParse(ResourceViewListSchema, args), <<>>, "resourceViewList",
                    resourceViewList(Get(d, "resource_id"))))

\* a status module that also registers a handler it advertises no tool for
StatusHandlerNames_Unadvertised == {"status_show", "help_show", "ping"}

StatusHandlerNames == {"status_show", "help_show"}

\* status_show takes no parameter and parses nothing
getStatusHandlers(name, args) ==
  CASE name = "status_show" ->
         [validation |-> "none", client |-> <<"statusShow">>,
          out |-> AfterCall(statusShow)]
    [] name = "help_show" ->
         (LET d == safeParse(HelpShowSchema, args).data
          IN Handle(safeParse(HelpShowSchema, args), <<>>, "helpShow",
                    helpShow(Get(d, "name"))))

\* a handler whose catch block returns the error text without the flag
HandlerResume_Unflagged(req, reply) ==
  LET c == ClientResume(req, reply)
  IN IF c.kind = "return" THEN SuccessEnvelope(c.value)
     ELSE [content |-> <<TextItem(Message(ErrorToString(c.error)))>>]

\* a handler's continuation when the reply to its request arrives
HandlerResume(req, reply) ==
  LET c == ClientResume(req, reply)
  IN IF c.kind = "return" THEN SuccessEnvelope(c.value)
     ELSE ErrorEnvelope(ErrorToString(c.error))

(***************************************************************************)
(* Dispatch Core: the entry point's handler map and CallTool handler.      *)
(***************************************************************************)
\* members every object literal inherits from Object.prototype
ObjectPrototypeFunctions ==
  {"constructor", "toString", "toLocaleString", "valueOf", "hasOwnProperty",
   "isPrototypeOf", "propertyIsEnumerable"}

\* handlers[name]: the merged own properties (a later spread wins), then the
\* prototype chain of the object literal
handlers(name) ==
  IF name \in StatusHandlerNames THEN [kind |-> "function", owner |-> "status"]
  ELSE IF name \in ResourcesHandlerNames THEN [kind |-> "function", owner |-> "resources"]
  ELSE IF name \in DatastoreHandlerNames THEN [kind |-> "function", owner |-> "datastore"]
  ELSE IF name \in OrgTaxonomyHandlerNames THEN [kind |-> "function", owner |-> "org-taxonomy"]
  ELSE IF name \in CatalogHandlerNames THEN [kind |-> "function", owner |-> "catalog"]
  ELSE IF name \in ObjectPrototypeFunctions
       THEN [kind |-> "function", owner |-> "Object.prototype"]
  ELSE IF name = "__proto__" THEN [kind |-> "object", owner |-> "Object.prototype"]
  ELSE [kind |-> "undefined", owner |-> "none"]

T_objectUndefined ==
  <<"[","o","b","j","e","c","t"," ","U","n","d","e","f","i","n","e","d","]">>

\* handler(args) for an inherited function, called with this === undefined:
\* Object(args) returns args, toString returns a string, the others throw
InheritedCall(name, args) ==
  CASE name = "constructor" -> [kind |-> "value", value |-> args]
    [] name = "toString" -> [kind |-> "value", value |-> Str(T_objectUndefined)]
    [] OTHER ->
         [kind |-> "throw",
          error |-> <<"TypeError: Cannot convert undefined or null to object">>]

\* handler(args) for a registered tool
RegisteredCall(owner, name, args) ==
  CASE owner = "catalog" -> getCatalogHandlers(name, args)
    [] owner = "org-taxonomy" -> getOrgTaxonomyHandlers(name, args)
    [] owner = "datastore" -> getDatastoreHandlers(name, args)
    [] owner = "resources" -> getResourcesHandlers(name, args)
    [] owner = "status" -> getStatusHandlers(name, args)

NotFoundEnvelope(name) == ErrorEnvelope(<<"Tool not found: ", name>>)
InvalidResultEnvelope(name) == ErrorEnvelope(<<"Tool \"", name, "\" returned invalid result">>)
\* a failure envelope that has lost its isError flag
FailedEnvelope_Unflagged(name, err) ==
  [content |-> <<TextItem(Message(<<"Tool \"", name, "\" failed: ">> \o err))>>]

FailedEnvelope(name, err) == ErrorEnvelope(<<"Tool \"", name, "\" failed: ">> \o err)

\* an object that is returned as it is: its content array and its isError
PassedThrough(v) ==
  IF Get(v, "isError").t = "boolean"
  THEN [raw |-> TRUE, isError |-> Get(v, "isError").v, content |-> Get(v, "content").v]
  ELSE [raw |-> TRUE, content |-> Get(v, "content").v]

\* a dispatch that hands any returned object on, whatever its content
Answer_KeepsObjects(name, ret) ==
  CASE ret.kind = "throw" -> FailedEnvelope(name, ret.error)
    [] ret.kind = "envelope" -> ret.envelope
    [] ret.kind = "value" ->
         IF IsArgsObject(ret.value)
         THEN (IF Get(ret.value, "content").t = "array" THEN PassedThrough(ret.value)
               ELSE [raw |-> TRUE, content |-> <<>>])
         ELSE InvalidResultEnvelope(name)

\* the try/catch around await handler(args): what the transport is handed
\* for what the handler returned or threw
Answer(name, ret) ==
  CASE ret.kind = "throw" -> FailedEnvelope(name, ret.error)
    [] ret.kind = "envelope" ->
         IF "content" \in DOMAIN ret.envelope THEN ret.envelope
         ELSE InvalidResultEnvelope(name)
    [] ret.kind = "value" ->
         IF IsArgsObject(ret.value) /\ Get(ret.value, "content").t = "array"
         THEN PassedThrough(ret.value)
         ELSE InvalidResultEnvelope(name)

(***************************************************************************)
(* State.                                                                  *)
(*   CONFIG  the runtime configuration, read once from the environment     *)
(*   inv     the invocation being handled:                                 *)
(*     pc          "idle" | "awaiting" (suspended on the HTTP request) |   *)
(*                 "responded"                                             *)
(*     mode        "tool" (a CallTool request) | "client" (a call of an    *)
(*                 exported client operation)                              *)
(*     name, args  the request                                             *)
(*     called      the functions the dispatch core has invoked             *)
(*     validation  "none" | "passed" | "failed"                            *)
(*     client      the client operations called                            *)
(*     http        the HTTP requests issued                                *)
(*     response    the envelope returned (mode "tool"), or what the        *)
(*                 operation returned or threw (mode "client")             *)
(*     reply       the upstream reply that completed the HTTP exchange     *)
(*     stdout,     what the handling of the request has written to the     *)
(*     stderr      process's two output streams                            *)
(*   LOGGER  the logger module loaded and its environment                  *)
(*   now     Date.now(): the clock reading, in milliseconds, that the      *)
(*           calls of a run see (no step of the model takes time)          *)
(*   flights the invocations in flight when the transport delivers a       *)
(*           request before earlier ones have resolved, in arrival order   *)
(***************************************************************************)
NoResponse == [pending |-> TRUE]
NotCalled == [kind |-> "none"]
Suspended == [kind |-> "pending"]
NoReply == [kind |-> "none"]

\* no request is being handled
Idle ==
  [pc |-> "idle", mode |-> "none", name |-> "", args |-> <<>>, called |-> <<>>,
   handled |-> NotCalled, validation |-> "none", client |-> <<>>, http |-> <<>>,
   response |-> NoResponse, reply |-> NoReply, stdout |-> {}, stderr |-> {}]

ConfigChoices ==
  [ENABLE_SQL : BOOLEAN,
   MAX_ROWS : -1..MaxRowsBound,
   DEFAULT_ROWS : 0..DefaultRowsBound,
   TIMEOUT_MS : {15000}]

\* the configurations the server is run under: the row ceiling at its bound,
\* the default below it (as shipped: 25 < 1000) and above it
ServerConfigs ==
  {c \in ConfigChoices :
     c.MAX_ROWS = MaxRowsBound /\ c.DEFAULT_ROWS \in {1, DefaultRowsBound}}

\* clock readings of a run, in milliseconds since the epoch
ClockReadings == {5400000}

\* the two definitions of the exported logger, in either run mode, with
\* LOG_LEVEL unset or set
LoggerChoices ==
  [definition : {"first", "second"},
   NODE_ENV : {"production", "development"},
   LOG_LEVEL : {"", "error"}]

\* the logger documented to keep stdout clean, run without NODE_ENV
DevelopmentLogger ==
  [definition |-> "first", NODE_ENV |-> "development", LOG_LEVEL |-> ""]

Init ==
  /\ CONFIG \in ServerConfigs
  /\ LOGGER = DevelopmentLogger
  /\ now \in ClockReadings
  /\ inv = Idle
  /\ flights = <<>>
  /\ proc = Running

(***************************************************************************)
(* Requests the transport may deliver.                                     *)
(***************************************************************************)
T_dropTable == <<"D","R","O","P"," ","T","A","B","L","E"," ","x">>

SampleValues ==
  {Str(T_a), Str(<<>>), Str(T_dropTable), Flt(1), Bool(TRUE), Null,
   Arr(<<>>), Arr(<<T_a, T_b>>), Obj(<< <<T_a, Num(1)>> >>)}
  \cup {Num(n) : n \in -1..ArgNumBound}

\* the Zod schema a registered tool's handler parses with (status_show: none)
SchemaOf(name) ==
  CASE name = "package_search" -> PackageSearchSchema
    [] name = "package_show" -> PackageShowSchema
    [] name = "package_list" -> PackageListSchema
    [] name = "current_package_list_with_resources" -> CurrentPackageListWithResourcesSchema
    [] name = "package_autocomplete" -> PackageAutocompleteSchema
    [] name = "package_activity_list" -> PackageActivityListSchema
    [] name = "recently_changed_packages_activity_list" ->
         RecentlyChangedPackagesActivityListSchema
    [] name = "organization_list" -> OrganizationListSchema
    [] name = "organization_show" -> OrganizationShowSchema
    [] name = "group_list" -> GroupListSchema
    [] name = "group_show" -> GroupShowSchema
    [] name = "tag_list" -> TagListSchema
    [] name = "tag_autocomplete" -> TagAutocompleteSchema
    [] name = "license_list" -> LicenseListSchema
    [] name = "vocabulary_list" -> VocabularyListSchema
    [] name = "vocabulary_show" -> VocabularyShowSchema
    [] name = "tag_show" -> TagShowSchema
    [] name = "datastore_info" -> DatastoreInfoSchema
    [] name = "datastore_search" -> DatastoreSearchSchema
    [] name = "datastore_search_sql" -> DatastoreSearchSqlSchema
    [] name = "resource_show" -> ResourceIdSchema
    [] name = "resource_view_show" -> ResourceIdSchema
    [] name = "resource_view_list" -> ResourceViewListSchema
    [] name = "help_show" -> HelpShowSchema
    [] OTHER -> [id |-> "null", strict |-> FALSE, shape |-> <<>>]

\* obj with key k set to v
With(obj, k, v) == [x \in DOMAIN obj \cup {k} |-> IF x = k THEN v ELSE obj[x]]
\* obj without key k
Without(obj, k) == [x \in DOMAIN obj \ {k} |-> obj[x]]

EmptyArgs == <<>>

\* arguments that satisfy a tool's schema with nothing optional supplied
BaseArgs(name) ==
  LET shape == SchemaOf(name).shape
  IN [k \in {x \in DOMAIN shape : ~shape[x].optional} |-> Str(T_a)]

\* the base arguments, and the base arguments with one key set, or removed
ToolArgs(name) ==
  LET base == BaseArgs(name)
      keys == DOMAIN SchemaOf(name).shape \cup {"bogus", "content"}
  IN {base}
     \cup {With(base, k, v) : k \in keys, v \in SampleValues}
     \cup {Without(base, k) : k \in DOMAIN base}

UnknownNames ==
  {"nope", "", "PACKAGE_SEARCH", "__proto__", "constructor", "toString", "valueOf",
   "hasOwnProperty"}

UnknownArgs == {EmptyArgs, [content |-> Arr(<<>>)], [id |-> Str(T_a)]}

T_two == <<"2">>
T_true == <<"t","r","u","e">>

\* the base arguments with one number given as the text "2", or one boolean
\* as the text "true"
CoercibleArgs(name) ==
  LET base == BaseArgs(name)
      shape == SchemaOf(name).shape
  IN {With(base, k, Str(T_two)) :
        k \in {x \in DOMAIN shape : shape[x].ty \in {"int.positive", "int.nonnegative"}}}
     \cup {With(base, k, Str(T_true)) :
             k \in {x \in DOMAIN shape : shape[x].ty = "boolean"}}

Requests ==
  UNION {{[name |-> n, args |-> a] : a \in ToolArgs(n) \cup CoercibleArgs(n)} :
           n \in ToolNames}
  \cup {[name |-> n, args |-> a] : n \in UnknownNames, a \in UnknownArgs}

(***************************************************************************)
(* Actions of the server.                                                  *)
(***************************************************************************)
(***************************************************************************)
(* Logging (src/utils/logger.js) and the process's output streams.         *)
(***************************************************************************)
LevelOrder == <<"debug", "info", "warn", "error">>
LevelRank(level) == CHOOSE i \in 1..Len(LevelOrder) : LevelOrder[i] = level

isProd == LOGGER.NODE_ENV = "production"

\* level: process.env.LOG_LEVEL || 'info' (production) / 'debug'
LoggerLevel ==
  IF LOGGER.LOG_LEVEL # "" THEN LOGGER.LOG_LEVEL
  ELSE IF isProd THEN "info" ELSE "debug"

\* the first definition gives pino the destination 2 (pino.destination(2),
\* pino-pretty's destination: 2); the second gives none, and pino and
\* pino-pretty then write to file descriptor 1
LoggerStream == IF LOGGER.definition = "first" THEN "stderr" ELSE "stdout"

LogEntry(level, msg) == [kind |-> "log", level |-> level, msg |-> msg]
ProtocolMessage == [kind |-> "protocol", level |-> "", msg |-> "response"]

\* logger.<level>(..., msg) for each of entries: an entry at or above the
\* logger's level is written to the logger's stream
Emit(i, entries) ==
  LET out == {e \in entries : LevelRank(e.level) >= LevelRank(LoggerLevel)}
  IN IF LoggerStream = "stdout" THEN [i EXCEPT !.stdout = @ \cup out]
     ELSE [i EXCEPT !.stderr = @ \cup out]

\* the stdio transport writes the handler's result to stdout
Written(i) == [i EXCEPT !.stdout = @ \cup {ProtocolMessage}]

\* hooks.beforeRequest and hooks.afterResponse of the HTTP client
BeforeRequestLog == {LogEntry("debug", "CKAN request")}
AfterResponseLog(reply) ==
  IF reply.kind \in {"ok", "http", "badjson"}
  THEN {LogEntry("debug", "CKAN response")} ELSE {}

\* the entries the CallTool handler logs around what the handler returned
\* or threw
AnswerLog(name, ret) ==
  CASE ret.kind = "throw" -> {LogEntry("error", "CallTool handler error")}
    [] Answer(name, ret) = InvalidResultEnvelope(name) ->
         {LogEntry("error", "returned invalid result")}
    [] OTHER -> {LogEntry("info", "CallTool response")}

(***************************************************************************)
(* The HTTP library's retry: ky.create is given no retry option, so ky     *)
(* applies its default: up to RetryLimit further attempts of a GET that    *)
(* failed with a network error or one of RetryStatusCodes; a timeout and a *)
(* POST are not retried.                                                   *)
(***************************************************************************)
RetryLimit == 2
RetryMethods == {"GET"}
RetryStatusCodes == {"408", "413", "429", "500", "502", "503", "504"}

\* the request, sent times so far, is sent again after reply
KyRetries(req, reply, sent) ==
  /\ sent <= RetryLimit
  /\ req.method \in RetryMethods
  /\ \/ reply.kind = "network"
     \/ reply.kind = "http" /\ reply.status \in RetryStatusCodes

Invocation(pc, mode, name, args, called, handled, validation, client, http, response) ==
  [pc |-> pc, mode |-> mode, name |-> name, args |-> args, called |-> called,
   handled |-> handled, validation |-> validation, client |-> client, http |-> http,
   response |-> response, reply |-> NoReply, stdout |-> {}, stderr |-> {}]

\* server.setRequestHandler(CallToolRequestSchema, ...): from the request to
\* the returned envelope, or to the handler's suspension on its HTTP request.
\* handled records what handler(args) returned or threw.
Started(name, args) ==
  LET handler == handlers(name)
      request == {LogEntry("info", "CallTool request")}
  IN IF handler.kind # "function"
     THEN Written(Emit(Invocation("responded", "tool", name, args, <<>>, NotCalled,
                                  "none", <<>>, <<>>, NotFoundEnvelope(name)),
                       request \cup {LogEntry("warn", "Tool not found")}))
     ELSE IF handler.owner = "Object.prototype"
     THEN LET ret == InheritedCall(name, args)
          IN Written(Emit(Invocation("responded", "tool", name, args, <<name>>, ret,
                                     "none", <<>>, <<>>, Answer(name, ret)),
                          request \cup AnswerLog(name, ret)))
     ELSE LET run == RegisteredCall(handler.owner, name, args)
          IN IF run.out.kind = "envelope"
             THEN Written(Emit(Invocation("responded", "tool", name, args, <<name>>,
                                          run.out, run.validation, run.client, <<>>,
                                          Answer(name, run.out)),
                               request \cup AnswerLog(name, run.out)))
             ELSE Emit(Invocation("awaiting", "tool", name, args, <<name>>,
                                  Suspended, run.validation, run.client,
                                  <<run.out.request>>, NoResponse),
                       request \cup BeforeRequestLog)

\* the reply to the HTTP request arrives: the library sends the request
\* again, or the handler resumes and returns and the dispatch core answers
Resumed(i, reply) ==
  IF KyRetries(i.http[1], reply, Len(i.http))
  THEN Emit([i EXCEPT !.http = Append(@, i.http[1])],
            AfterResponseLog(reply) \cup BeforeRequestLog)
  ELSE LET ret == Finished(HandlerResume(i.http[1], reply))
       IN Written(Emit([i EXCEPT !.pc = "responded",
                                 !.handled = ret,
                                 !.reply = reply,
                                 !.response = Answer(i.name, ret)],
                       AfterResponseLog(reply) \cup AnswerLog(i.name, ret)))

CallTool(name, args) ==
  /\ inv.pc = "idle"
  /\ inv' = Started(name, args)
  /\ UNCHANGED <<CONFIG, LOGGER, now, flights, proc>>

UpstreamReply(reply) ==
  /\ inv.pc = "awaiting"
  /\ inv.mode = "tool"
  /\ inv' = Resumed(inv, reply)
  /\ UNCHANGED <<CONFIG, LOGGER, now, flights, proc>>

\* server.setRequestHandler(ListToolsRequestSchema, ...): logs the count and
\* returns the tool descriptors
Listed ==
  Written(Emit(Invocation("responded", "list", "", EmptyArgs, <<>>,
                          NotCalled, "none", <<>>, <<>>,
                          [tools |-> toolDefs]),
               {LogEntry("info", "ListTools")}))

ListTools ==
  /\ inv.pc = "idle"
  /\ inv' = Listed
  /\ UNCHANGED <<CONFIG, LOGGER, now, flights, proc>>

\* the transport has written the response; the next request is read
Deliver ==
  /\ inv.pc = "responded"
  /\ inv.mode \in {"tool", "list"}
  /\ inv' = Idle
  /\ UNCHANGED <<CONFIG, LOGGER, now, flights, proc>>

Next ==
  \/ \E r \in Requests : CallTool(r.name, r.args)
  \/ \E reply \in Replies : UpstreamReply(reply)
  \/ Deliver

Spec == Init /\ [][Next]_vars

(***************************************************************************)
(* Direct calls of the client's exported operations (as the integration    *)
(* tests make them).  args holds the two positional arguments, a and b.    *)
(***************************************************************************)
ClientOp(op, a, b) ==
  CASE op = "packageSearch" -> packageSearch(a)
    [] op = "packageShow" -> packageShow(a)
    [] op = "packageList" -> packageList(a)
    [] op = "currentPackageListWithResources" -> currentPackageListWithResources(a)
    [] op = "packageAutocomplete" -> packageAutocomplete(a, b)
    [] op = "packageActivityList" -> packageActivityList(a)
    [] op = "recentlyChangedPackagesActivityList" ->
         recentlyChangedPackagesActivityList(a)
    [] op = "organizationList" -> organizationList(a)
    [] op = "organizationShow" -> organizationShow(a)
    [] op = "groupList" -> groupList(a)
    [] op = "groupShow" -> groupShow(a)
    [] op = "tagList" -> tagList(a)
    [] op = "tagAutocomplete" -> tagAutocomplete(a, b)
    [] op = "licenseList" -> licenseList
    [] op = "vocabularyList" -> vocabularyList
    [] op = "vocabularyShow" -> vocabularyShow(a)
    [] op = "tagShow" -> tagShow(a)
    [] op = "resourceShow" -> resourceShow(a)
    [] op = "resourceViewShow" -> resourceViewShow(a)
    [] op = "resourceViewList" -> resourceViewList(a)
    [] op = "statusShow" -> statusShow
    [] op = "helpShow" -> helpShow(a)
    [] op = "datastoreInfo" -> datastoreInfo(a, b)
    [] op = "datastoreSearch" -> datastoreSearch(a)
    [] op = "datastoreSearchSql" -> datastoreSearchSql(a)

\* an exported operation is called: it issues its request, or throws
ClientStarted(op, a, b) ==
  LET c == ClientOp(op, a, b)
  IN IF c.kind = "throw"
     THEN Invocation("responded", "client", op, [a |-> a, b |-> b], <<>>,
                     NotCalled, "none", <<op>>, <<>>, c)
     ELSE Emit(Invocation("awaiting", "client", op, [a |-> a, b |-> b], <<>>,
                          NotCalled, "none", <<op>>, <<c.request>>, NoResponse),
               BeforeRequestLog)

\* the reply arrives: the library sends the request again, or the operation
\* returns the body or throws the mapped error
ClientResumed(i, reply) ==
  IF KyRetries(i.http[1], reply, Len(i.http))
  THEN Emit([i EXCEPT !.http = Append(@, i.http[1])],
            AfterResponseLog(reply) \cup BeforeRequestLog)
  ELSE Emit([i EXCEPT !.pc = "responded",
                      !.reply = reply,
                      !.response = ClientResume(i.http[1], reply)],
            AfterResponseLog(reply))

ClientCall(op, a, b) ==
  /\ inv.pc = "idle"
  /\ inv' = ClientStarted(op, a, b)
  /\ UNCHANGED <<CONFIG, LOGGER, now, flights, proc>>

ClientReply(reply) ==
  /\ inv.pc = "awaiting"
  /\ inv.mode = "client"
  /\ inv' = ClientResumed(inv, reply)
  /\ UNCHANGED <<CONFIG, LOGGER, now, flights, proc>>

\* the caller has the outcome; the next call may be made
ClientDone ==
  /\ inv.pc = "responded"
  /\ inv.mode = "client"
  /\ inv' = Idle
  /\ UNCHANGED <<CONFIG, LOGGER, now, flights, proc>>

(***************************************************************************)
(* Properties of the dispatch core (specification Spec).                   *)
(***************************************************************************)
Responded == inv.pc = "responded" /\ inv.mode = "tool"

IsErrorEnvelope(e) == "isError" \in DOMAIN e /\ e.isError = TRUE

\* the envelope has a content array
HasContentArray(e) == "content" \in DOMAIN e /\ DOMAIN e.content = 1..Len(e.content)

\* the parts of the message texts of an envelope built by this program
MessageParts(e) ==
  IF "raw" \in DOMAIN e THEN {}
  ELSE UNION {{e.content[i].text.parts[j] : j \in 1..Len(e.content[i].text.parts)} :
                i \in {x \in 1..Len(e.content) : e.content[x].text.kind = "message"}}

\* C1: a CallTool request whose name is none of the registered tool names is
\* answered with isError = true and a text containing the requested name,
\* and no registered handler, no validation and no network request happens.
C1_UnknownToolNotFound ==
  (Responded /\ inv.name \notin ToolNames)
    => /\ IsErrorEnvelope(inv.response)
       /\ inv.name \in MessageParts(inv.response)
       /\ \A i \in 1..Len(inv.called) : inv.called[i] \notin ToolNames
       /\ inv.validation = "none"
       /\ inv.client = <<>>
       /\ inv.http = <<>>

\* C3: every CallTool request is answered with an envelope that has a
\* content array; when the handler throws, the answer has isError = true and
\* its text carries the stringified failure.
C3_AlwaysAnEnvelope ==
  Responded
    => /\ HasContentArray(inv.response)
       /\ inv.handled.kind = "throw"
            => /\ IsErrorEnvelope(inv.response)
               /\ \A i \in 1..Len(inv.handled.error) :
                    inv.handled.error[i] \in MessageParts(inv.response)

C3_HandlerThrew ==
  /\ Responded
  /\ inv.called = <<"valueOf">>
  /\ inv.handled.kind = "throw"
  /\ IsErrorEnvelope(inv.response)

\* what a handler returned is an object with a content array
C4_Conforms(ret) ==
  \/ ret.kind = "envelope" /\ "content" \in DOMAIN ret.envelope
  \/ /\ ret.kind = "value"
     /\ IsArgsObject(ret.value)
     /\ "content" \in DOMAIN ret.value
     /\ ret.value["content"].t = "array"

\* C4: when the handler returns something that is not an object with a
\* content array, the answer is an isError envelope with the generic
\* invalid-result text naming the tool, never the returned value.
C4_InvalidResultReplaced ==
  (Responded /\ inv.handled.kind \in {"envelope", "value"} /\ ~C4_Conforms(inv.handled))
    => /\ IsErrorEnvelope(inv.response)
       /\ "raw" \notin DOMAIN inv.response
       /\ inv.response.content =
            <<TextItem(Message(<<"Tool \"", inv.name, "\" returned invalid result">>))>>

C4_NonConformingReturned ==
  /\ Responded
  /\ inv.handled.kind = "value"
  /\ ~C4_Conforms(inv.handled)
  /\ inv.name \in MessageParts(inv.response)

\* the JSON type of an argument value
JsonTypeOf(v) == IF v.t = "float" THEN "number" ELSE v.t

\* the ranges the tools declare for their numbers and texts
C2_OutOfRange(k, v) ==
  \/ k \in {"rows", "limit", "facetLimit"} /\ v.t = "number" /\ v.v <= 0
  \/ k \in {"offset", "start"} /\ v.t = "number" /\ v.v < 0
  \/ k = "sql" /\ v.t = "string" /\ v.v = <<>>

\* the arguments violate the advertised input shape of the tool: a required
\* key is missing, a declared key has a value of another type, or a number
\* or text is out of its range
C2_Violates(name, args) ==
  LET shape == InputShapeOf(name)
      declared == DOMAIN shape.properties
  IN \/ \E k \in shape.required : k \notin DOMAIN args
     \/ \E k \in DOMAIN args \cap declared : JsonTypeOf(args[k]) \notin shape.properties[k]
     \/ \E k \in DOMAIN args \cap declared : C2_OutOfRange(k, args[k])

Rejected ==
  /\ inv.pc = "responded"
  /\ IsErrorEnvelope(inv.response)
  /\ inv.client = <<>>
  /\ inv.http = <<>>

\* C2: an invocation of a registered tool whose arguments have a wrong type,
\* lack a required field or hold an out-of-range number is answered with
\* isError = true, and the client operation behind the tool is never called.
C2_InvalidArgsRejected ==
  (inv.pc # "idle" /\ inv.mode = "tool" /\ inv.name \in ToolNames
     /\ C2_Violates(inv.name, inv.args))
    => Rejected

C2_MissingIdRejected ==
  /\ Responded
  /\ inv.name = "package_show"
  /\ inv.args = EmptyArgs
  /\ inv.validation = "failed"
  /\ Rejected

\* C9: for every tool, arguments with a top-level key that the tool's input
\* shape does not declare are rejected with isError = true and no upstream
\* call.
C9_UnknownKeyRejected ==
  (inv.pc # "idle" /\ inv.mode = "tool" /\ inv.name \in ToolNames
     /\ \E k \in DOMAIN inv.args : k \notin DOMAIN InputShapeOf(inv.name).properties)
    => Rejected

(***************************************************************************)
(* Calls of the client's operations with arguments of the documented       *)
(* types (the JSDoc of each operation), numbers of any sign and size.      *)
(***************************************************************************)
\* the client operation a tool's handler calls
OperationOf(name) ==
  CASE name = "package_search" -> "packageSearch"
    [] name = "package_show" -> "packageShow"
    [] name = "package_list" -> "packageList"
    [] name = "current_package_list_with_resources" -> "currentPackageListWithResources"
    [] name = "package_autocomplete" -> "packageAutocomplete"
    [] name = "package_activity_list" -> "packageActivityList"
    [] name = "recently_changed_packages_activity_list" ->
         "recentlyChangedPackagesActivityList"
    [] name = "organization_list" -> "organizationList"
    [] name = "organization_show" -> "organizationShow"
    [] name = "group_list" -> "groupList"
    [] name = "group_show" -> "groupShow"
    [] name = "tag_list" -> "tagList"
    [] name = "tag_autocomplete" -> "tagAutocomplete"
    [] name = "license_list" -> "licenseList"
    [] name = "vocabulary_list" -> "vocabularyList"
    [] name = "vocabulary_show" -> "vocabularyShow"
    [] name = "tag_show" -> "tagShow"
    [] name = "datastore_info" -> "datastoreInfo"
    [] name = "datastore_search" -> "datastoreSearch"
    [] name = "datastore_search_sql" -> "datastoreSearchSql"
    [] name = "resource_show" -> "resourceShow"
    [] name = "resource_view_show" -> "resourceViewShow"
    [] name = "resource_view_list" -> "resourceViewList"
    [] name = "status_show" -> "statusShow"
    [] name = "help_show" -> "helpShow"

T_select == <<"S","E","L","E","C","T"," ","1">>

SampleObject == Obj(<< <<T_a, Num(1)>>, <<T_b, Str(T_a)>> >>)

\* values of a documented parameter type
ClientValues(ty) ==
  CASE ty \in {"int.positive", "int.nonnegative"} -> {Num(n) : n \in -1..ArgNumBound}
    [] ty \in {"string", "string.min1"} -> {Str(T_a), Str(<<>>)}
    [] ty = "boolean" -> {Bool(TRUE), Bool(FALSE)}
    [] ty = "string[]" -> {Arr(<<>>), Arr(<<T_a, T_b>>)}
    [] ty = "string|string[]" -> {Str(T_a), Arr(<<T_a, T_b>>)}
    [] ty = "string|record" -> {Str(T_a), SampleObject}
    [] ty = "record" -> {Obj(<<>>), SampleObject}

\* argument objects for the operation behind a tool: the required keys, and
\* one more key set; for datastoreSearch also a limit next to a filter
ClientArgs(name) ==
  LET base == [k \in DOMAIN BaseArgs(name) |->
                 IF name = "datastore_search_sql" THEN Str(T_select) ELSE Str(T_a)]
      shape == SchemaOf(name).shape
  IN {base}
     \cup UNION {{With(base, k, v) : v \in ClientValues(shape[k].ty)} : k \in DOMAIN shape}
     \cup (IF name = "datastore_search"
           THEN {With(With(base, "filters", SampleObject), "limit", Num(n)) :
                   n \in -1..ArgNumBound}
           ELSE {})

\* operations that take an argument object
ObjectCalls ==
  UNION {{[op |-> OperationOf(n), a |-> args, b |-> Undef] : args \in ClientArgs(n)} :
           n \in ToolNames \ {"license_list", "vocabulary_list", "status_show",
                              "help_show", "datastore_info"}}

\* operations called with positional arguments
PositionalCalls ==
  {[op |-> o, a |-> Str(T_a), b |-> Undef] :
     o \in {"packageShow", "organizationShow", "groupShow", "vocabularyShow",
            "tagShow", "resourceShow", "resourceViewShow", "resourceViewList",
            "helpShow"}}
  \cup {[op |-> o, a |-> Undef, b |-> Undef] :
          o \in {"licenseList", "vocabularyList", "statusShow"}}
  \cup {[op |-> o, a |-> Str(T_a), b |-> lim] :
          o \in {"packageAutocomplete", "tagAutocomplete"},
          lim \in {Undef} \cup {Num(n) : n \in -1..ArgNumBound}}
  \cup {[op |-> "datastoreInfo", a |-> Str(T_a), b |-> p] :
          p \in {Undef, Bool(TRUE), Bool(FALSE)}}
  \cup {[op |-> "datastoreSearchSql", a |-> Str(s), b |-> Undef] :
          s \in {T_select, T_dropTable}}

ClientCalls == ObjectCalls \cup PositionalCalls

\* direct calls are made at either of two clock readings
ClientClockReadings == ClockReadings \cup {3600000}

InitClient ==
  /\ CONFIG \in ConfigChoices
  /\ LOGGER = DevelopmentLogger
  /\ now \in ClientClockReadings
  /\ inv = Idle
  /\ flights = <<>>
  /\ proc = Running

NextClient ==
  \/ \E c \in ClientCalls : ClientCall(c.op, c.a, c.b)
  \/ \E reply \in Replies : ClientReply(reply)
  \/ ClientDone

SpecClient == InitClient /\ [][NextClient]_vars

(***************************************************************************)
(* Properties of the client's requests (specification SpecClient).         *)
(***************************************************************************)
\* the keys an HTTP request carries: of its query string, or of its body
SentKeys(req) ==
  IF req.method = "GET" THEN KeysOf(req.query) ELSE KeysOf(req.body)

\* the request carries the number n under key
SentNumber(req, key, n) ==
  /\ key \in SentKeys(req)
  /\ IF req.method = "GET" THEN ValueOf(req.query, key) = NumberToText(n)
     ELSE ValueOf(req.body, key) = Num(n)

\* the name of an operation's row limit, and the value the caller supplied
C5_Key == IF inv.client = <<"packageSearch">> THEN "rows" ELSE "limit"
C5_Supplied == IF IsArgsObject(inv.args.a) THEN Get(inv.args.a, C5_Key) ELSE inv.args.b

\* min(max(0, v), MAX_ROWS)
C5_Expected(v) ==
  LET raised == IF v < 0 THEN 0 ELSE v
  IN IF raised > CONFIG.MAX_ROWS THEN CONFIG.MAX_ROWS ELSE raised

\* C5: a supplied numeric limit/rows v is sent as min(max(0, v), MAX_ROWS);
\* with none supplied, packageSearch and datastoreSearch send DEFAULT_ROWS
\* and every other operation sends no limit field.
C5_RowLimitClamped ==
  (inv.pc # "idle" /\ inv.mode = "client")
    => IF C5_Supplied.t = "number"
       THEN /\ inv.http # <<>>
            /\ SentNumber(inv.http[1], C5_Key, C5_Expected(C5_Supplied.v))
       ELSE inv.http # <<>>
              => IF inv.client[1] \in {"packageSearch", "datastoreSearch"}
                 THEN SentNumber(inv.http[1], C5_Key, CONFIG.DEFAULT_ROWS)
                 ELSE SentKeys(inv.http[1]) \cap {"limit", "rows"} = {}

C5_CeilingApplied ==
  /\ inv.pc = "awaiting"
  /\ inv.client = <<"packageList">>
  /\ CONFIG.MAX_ROWS > 0
  /\ C5_Supplied.t = "number"
  /\ C5_Supplied.v > CONFIG.MAX_ROWS
  /\ ValueOf(inv.http[1].query, "limit") = NumberToText(CONFIG.MAX_ROWS)

\* every parameter the operation left undefined is missing from the request
C10_UndefinedOmitted(req) ==
  \A i \in 1..Len(req.params) :
    req.params[i][2].t = "undefined" => req.params[i][1] \notin SentKeys(req)

\* every array or object parameter of a GET is in the query string as its
\* compact JSON text
C10_QueryHoldsJsonText(req) ==
  \A i \in 1..Len(req.params) :
    (req.method = "GET" /\ req.params[i][2].t \in {"array", "object"})
      => /\ req.params[i][1] \in KeysOf(req.query)
         /\ ValueOf(req.query, req.params[i][1]) = JSONstringify(req.params[i][2])

Upper(s) ==
  [i \in 1..Len(s) |->
     IF s[i] \in LowerLetters THEN CHOOSE u \in UpperLetters : ToLowerChar(u) = s[i]
     ELSE s[i]]
Capitalized(s) == <<Upper(s)[1]>> \o Tail(s)

\* words a statement is built around: the data-changing verbs and others
SqlWords ==
  { <<"d","r","o","p">>, <<"d","e","l","e","t","e">>, <<"u","p","d","a","t","e">>,
    <<"i","n","s","e","r","t">>, <<"a","l","t","e","r">>, <<"c","r","e","a","t","e">>,
    <<"g","r","a","n","t">>, <<"r","e","v","o","k","e">>,
    <<"s","e","l","e","c","t">>, <<"f","r","o","m">> }
SqlPrefixes ==
  { <<>>, <<"S","E","L","E","C","T"," ">>, <<"x",";">>, <<"a","_">>, <<"a">> }
SqlSuffixes == { <<>>, <<" ","t">>, <<"_","t">>, <<"s">>, <<";">> }

SqlTexts ==
  {pre \o w \o post :
     pre \in SqlPrefixes,
     w \in UNION {{v, Upper(v), Capitalized(v)} : v \in SqlWords},
     post \in SqlSuffixes}
  \cup {T_dropTable, T_select}

Slugs == { <<"a">>, <<"a","-","b">>, <<"a","_","1">> }
FqPrefixes == { <<>>, <<"(">>, <<"-">>, <<"x">>, <<"c",":","d"," ">> }
FqSuffixes ==
  { <<>>, <<")">>, <<" ","A","N","D"," ","c",":","d">>, <<" ">> \o T_orgColon \o <<"b">> }

FqTexts ==
  {pre \o T_orgColon \o slug \o post :
     pre \in FqPrefixes, slug \in Slugs, post \in FqSuffixes}
  \cup {pre \o T_orgColon \o <<"\"">> \o slug \o <<"\"">> \o post :
          pre \in FqPrefixes, slug \in Slugs \cup {<<"a"," ","b">>}, post \in FqSuffixes}
  \cup {<<>>, <<"c",":","d">>, <<"c",":","\"","a","\"">>}

QValues ==
  {Undef, Null, Str(<<>>), Str(<<"*">>), Str(T_matchAll), Str(<<"*","*">>),
   Str(<<" ">>), Str(T_a), Str(<<"a","*">>)}

\* argument objects of packageSearch / package_search
SearchArgs ==
  {[q |-> q] : q \in QValues \ {Undef}}
  \cup {EmptyArgs}
  \cup {[fq |-> Str(s)] : s \in FqTexts}
  \cup {[fq |-> Arr(<<T_a, T_orgColon \o T_a>>)]}

TextCalls ==
  {[op |-> "packageSearch", a |-> args, b |-> Undef] : args \in SearchArgs}
  \cup {[op |-> "datastoreSearchSql", a |-> Str(s), b |-> Undef] : s \in SqlTexts}
  \cup {[op |-> "datastoreSearchSql", a |-> [sql |-> Str(s)], b |-> Undef] :
          s \in SqlTexts}

TextRequests ==
  {[name |-> "package_search", args |-> args] :
     args \in {a \in SearchArgs : \A k \in DOMAIN a : a[k].t # "null"}}
  \cup {[name |-> "datastore_search_sql", args |-> [sql |-> Str(s)]] : s \in SqlTexts}

InitText ==
  /\ CONFIG \in ServerConfigs
  /\ LOGGER = DevelopmentLogger
  /\ now \in ClockReadings
  /\ inv = Idle
  /\ flights = <<>>
  /\ proc = Running

NextText ==
  \/ \E c \in TextCalls : ClientCall(c.op, c.a, c.b)
  \/ \E reply \in Replies : ClientReply(reply)
  \/ ClientDone
  \/ \E r \in TextRequests : CallTool(r.name, r.args)
  \/ \E reply \in Replies : UpstreamReply(reply)
  \/ Deliver

SpecText == InitText /\ [][NextText]_vars

(***************************************************************************)
(* Properties of the text handling (specification SpecText).               *)
(***************************************************************************)
\* the SQL statement of the call in progress, <<>> when it is not an SQL call
SqlOfCall ==
  IF inv.mode = "client" /\ inv.client = <<"datastoreSearchSql">>
  THEN (IF IsArgsObject(inv.args.a) THEN inv.args.a.sql.v ELSE inv.args.a.v)
  ELSE IF inv.mode = "tool" /\ inv.name = "datastore_search_sql"
  THEN inv.args.sql.v
  ELSE <<>>

C6_Verbs ==
  { <<"d","r","o","p">>, <<"d","e","l","e","t","e">>, <<"u","p","d","a","t","e">>,
    <<"i","n","s","e","r","t">>, <<"a","l","t","e","r">>, <<"c","r","e","a","t","e">>,
    <<"g","r","a","n","t">>, <<"r","e","v","o","k","e">> }

\* the words of a text: its maximal runs of letters, digits and underscores
C6_Words(s) ==
  {SubSeq(s, i, j) : <<i, j>> \in
     {p \in (1..Len(s)) \X (1..Len(s)) :
        /\ p[1] <= p[2]
        /\ \A k \in p[1]..p[2] : IsWordChar(s[k])
        /\ (p[1] = 1 \/ ~IsWordChar(s[p[1] - 1]))
        /\ (p[2] = Len(s) \/ ~IsWordChar(s[p[2] + 1]))}}

C6_HasForbiddenWord(s) == \E w \in C6_Words(s) : ToLower(w) \in C6_Verbs

\* the call failed, by a thrown error or an isError envelope, without HTTP
C6_FailedOffline ==
  /\ inv.pc = "responded"
  /\ inv.http = <<>>
  /\ IF inv.mode = "client" THEN inv.response.kind = "throw"
     ELSE IsErrorEnvelope(inv.response)

C6_ForbiddenNamed ==
  LET text == "[CKAN datastore_search_sql] Forbidden SQL verb detected"
  IN IF inv.mode = "client" THEN inv.response.error = <<text>>
     ELSE text \in MessageParts(inv.response)

\* C6: with ENABLE_SQL false every SQL call fails and issues no HTTP
\* request; with ENABLE_SQL true a statement holding one of the eight verbs
\* as a whole word, in any letter case, fails with the forbidden-verb error
\* and no HTTP request, and any other statement is sent as exactly one POST.
C6_SqlGuard ==
  SqlOfCall # <<>>
    => IF ~CONFIG.ENABLE_SQL THEN C6_FailedOffline
       ELSE IF C6_HasForbiddenWord(SqlOfCall)
       THEN C6_FailedOffline /\ C6_ForbiddenNamed
       ELSE /\ Len(inv.http) = 1
            /\ inv.http[1].method = "POST"
            /\ inv.http[1].body = << <<"sql", Str(SqlOfCall)>> >>

C6_DropTableRefused ==
  /\ Responded
  /\ CONFIG.ENABLE_SQL
  /\ inv.name = "datastore_search_sql"
  /\ inv.args.sql = Str(T_dropTable)
  /\ C6_FailedOffline
  /\ C6_ForbiddenNamed

\* the q the caller gave packageSearch
C7_Q == IF inv.mode = "client" THEN Get(inv.args.a, "q") ELSE Get(inv.args, "q")

IsPackageSearch ==
  \/ inv.mode = "client" /\ inv.client = <<"packageSearch">>
  \/ inv.mode = "tool" /\ inv.name = "package_search"

\* C7: an absent q, the empty string and "*" are sent as "*:*"; every other
\* non-empty string q is sent unchanged.
C7_QueryNormalized ==
  IsPackageSearch
    => /\ inv.http # <<>>
       /\ "q" \in KeysOf(inv.http[1].query)
       /\ ValueOf(inv.http[1].query, "q") =
            IF C7_Q.t \in {"undefined", "null"} \/ C7_Q.v \in {<<>>, <<"*">>}
            THEN <<"*", ":", "*">>
            ELSE C7_Q.v

C7_BareStarSent ==
  /\ IsPackageSearch
  /\ inv.pc = "awaiting"
  /\ C7_Q = Str(<<"*">>)
  /\ ValueOf(inv.http[1].query, "q") = <<"*", ":", "*">>

\* the fq the caller gave packageSearch
C8_Fq == IF inv.mode = "client" THEN Get(inv.args.a, "fq") ELSE Get(inv.args, "fq")

\* the characters of an organization slug: lower-case letters, digits, - and _
IsSlugChar(c) == c \in LowerLetters \cup Digits \cup {"-", "_"}

\* the last position of the run of slug characters that starts at i
RECURSIVE C8_SlugEnd(_, _)
C8_SlugEnd(s, i) ==
  IF i > Len(s) \/ ~IsSlugChar(s[i]) THEN i - 1 ELSE C8_SlugEnd(s, i + 1)

\* the filter with every unquoted token organization:<slug> replaced by
\* (organization:"<slug>" OR publisher:"<slug>") and all other text kept
RECURSIVE C8_Rewritten(_, _)
C8_Rewritten(s, i) ==
  IF i > Len(s) THEN <<>>
  ELSE LET v == i + Len(T_orgColon)
       IN IF /\ StartsAt(s, i, T_orgColon)
             /\ (i = 1 \/ ~IsWordChar(s[i - 1]))
             /\ v <= Len(s)
             /\ IsSlugChar(s[v])
          THEN LET slug == SubSeq(s, v, C8_SlugEnd(s, v))
               IN <<"(">> \o T_orgColon \o <<"\"">> \o slug
                  \o <<"\"", " ", "O", "R", " ">>
                  \o <<"p","u","b","l","i","s","h","e","r",":","\"">> \o slug
                  \o <<"\"", ")">> \o C8_Rewritten(s, C8_SlugEnd(s, v) + 1)
          ELSE <<s[i]>> \o C8_Rewritten(s, i + 1)

\* does lit occur in s
Contains(s, lit) == \E i \in 1..Len(s) : StartsAt(s, i, lit)

\* C8: in a string fq every unquoted token organization:<slug> is sent as
\* (organization:"<slug>" OR publisher:"<slug>") with the slug the caller
\* wrote, a token already quoted gets no second pair of quotes, and the text
\* outside organization tokens is sent unchanged.
C8_FilterNormalized ==
  (IsPackageSearch /\ C8_Fq.t = "string")
    => /\ inv.http # <<>>
       /\ "fq" \in KeysOf(inv.http[1].query)
       /\ ~Contains(C8_Fq.v, T_orgQuote)
            => ValueOf(inv.http[1].query, "fq") = C8_Rewritten(C8_Fq.v, 1)
       /\ Contains(C8_Fq.v, T_orgQuote)
            => ~Contains(ValueOf(inv.http[1].query, "fq"), <<"\"", "\"">>)


(***************************************************************************)
(* Transport selection (specification SpecClient).                         *)
(***************************************************************************)
\* the call's filters, q or fields is a structured value
C11_Structured ==
  /\ IsArgsObject(inv.args.a)
  /\ \/ Get(inv.args.a, "filters").t \in {"object", "array"}
     \/ Get(inv.args.a, "q").t \in {"object", "array"}
     \/ Get(inv.args.a, "fields").t = "array"

\* C11: datastoreSearch issues a POST with a request body exactly when
\* filters is an object, or q is an object, or fields is an array; in every
\* other case, and for every operation but the SQL passthrough, the request
\* is a GET with an encoded query string.
C11_TransportSelection ==
  (inv.mode = "client" /\ inv.http # <<>>)
    => \A i \in 1..Len(inv.http) :
         LET req == inv.http[i]
         IN IF \/ inv.client = <<"datastoreSearchSql">>
               \/ (inv.client = <<"datastoreSearch">> /\ C11_Structured)
            THEN req.method = "POST" /\ "body" \in DOMAIN req
                                     /\ "query" \notin DOMAIN req
            ELSE req.method = "GET" /\ "query" \in DOMAIN req
                                    /\ "body" \notin DOMAIN req

\* a row search with nothing structured but a field list goes out as a POST
C11_FieldListPosted ==
  /\ inv.mode = "client"
  /\ inv.pc = "awaiting"
  /\ inv.client = <<"datastoreSearch">>
  /\ Get(inv.args.a, "fields") = Arr(<<T_a, T_b>>)
  /\ Get(inv.args.a, "filters") = Undef
  /\ Get(inv.args.a, "q") = Undef
  /\ inv.http[1].method = "POST"
  /\ ValueOf(inv.http[1].body, "fields") = Arr(<<T_a, T_b>>)

(***************************************************************************)
(* Requests per operation call (specification SpecClient).                 *)
(***************************************************************************)
\* C12: each client operation call issues at most one HTTP request, and
\* exactly one when it is not refused locally: a request that fails is
\* reported once and never sent again by the client or its HTTP library.
C12_OneRequestPerCall ==
  (inv.mode = "client" /\ inv.pc # "idle")
    => /\ Len(inv.http) <= 1
       /\ inv.http = <<>> => (inv.pc = "responded" /\ inv.response.kind = "throw")

(***************************************************************************)
(* Termination of an invocation (specification SpecLive).  Every request   *)
(* is issued with a timeout (http.get / http.post, option timeout), so the *)
(* timer of a pending request fires unless a reply comes first: the        *)
(* timeout reply is weakly fair.  Nothing is assumed of the upstream.      *)
(***************************************************************************)
TimeoutReply == CHOOSE r \in FailureReplies : r.kind = "timeout"

SpecLive == Init /\ [][Next]_vars /\ WF_vars(UpstreamReply(TimeoutReply))

\* every request issued carries TIMEOUT_MS, the activity feed twice that
C13_TimeoutSet ==
  \A i \in 1..Len(inv.http) :
    inv.http[i].timeout =
      IF inv.http[i].actionName = "recently_changed_packages_activity_list"
      THEN 2 * CONFIG.TIMEOUT_MS ELSE CONFIG.TIMEOUT_MS

\* an invocation completed by the timeout is answered with isError = true
C13_TimeoutIsError ==
  (Responded /\ inv.reply.kind = "timeout") => IsErrorEnvelope(inv.response)

\* C13: every Invoke request eventually receives a response: when the
\* upstream never answers, the per-request timeout (TIMEOUT_MS, twice that
\* for the global activity feed) fires and the invocation completes with an
\* isError = true envelope instead of remaining pending forever.
C13_EventuallyResponds ==
  /\ [](C13_TimeoutSet /\ C13_TimeoutIsError)
  /\ (inv.pc = "awaiting") ~> Responded

\* the global activity feed, timed out after twice TIMEOUT_MS, is answered
\* with an error envelope
C13_FeedTimedOut ==
  /\ Responded
  /\ inv.name = "recently_changed_packages_activity_list"
  /\ inv.reply.kind = "timeout"
  /\ inv.http[1].timeout = 2 * CONFIG.TIMEOUT_MS
  /\ IsErrorEnvelope(inv.response)

(***************************************************************************)
(* Several invocations in flight (specification SpecConc).  The SDK calls  *)
(* the CallTool handler for each request as it arrives; a call suspended   *)
(* at await handler(args) leaves the event loop to the others.  flights    *)
(* holds them in arrival order.                                            *)
(***************************************************************************)
MaxInFlight == 2

ConcRequests ==
  {[name |-> "package_show", args |-> [id |-> Str(T_a)]],
   [name |-> "package_search", args |-> EmptyArgs],
   [name |-> "datastore_search", args |-> [resource_id |-> Str(T_a)]],
   [name |-> "package_show", args |-> EmptyArgs],
   [name |-> "nope", args |-> EmptyArgs]}

ConcReplies ==
  {r \in Replies :
     \/ r.kind = "timeout"
     \/ r.kind = "ok" /\ r.body.result.t = "object"
     \/ r.kind = "http" /\ r.status = "500" /\ r.body.text = "Bad Gateway"}

\* a dispatch core that resumes invocations in arrival order
WaitsFor_Earlier(fs, k) == {j \in 1..(k - 1) : fs[j].pc = "awaiting"}

\* a dispatch core that keeps the invocation being served in one shared
\* slot, so that a reply resumes the waiting invocation that arrived last
Settle_SharedSlot(k, reply) ==
  /\ k \in DOMAIN flights
  /\ flights[k].pc = "awaiting"
  /\ LET waiting == {j \in DOMAIN flights : flights[j].pc = "awaiting"}
         last == CHOOSE j \in waiting : \A i \in waiting : i <= j
     IN flights' = [flights EXCEPT ![k] = Resumed(flights[last], reply)]
  /\ UNCHANGED <<CONFIG, LOGGER, now, inv, proc>>

\* the invocations that invocation k is made to wait for: the CallTool
\* handler takes no lock, keeps no queue and shares no mutable state
WaitsFor(fs, k) == {}

\* the transport delivers a request while others are in flight
Accept(name, args) ==
  /\ Len(flights) < MaxInFlight
  /\ flights' = Append(flights, Started(name, args))
  /\ UNCHANGED <<CONFIG, LOGGER, now, inv, proc>>

\* the transport delivers a List request while others are in flight
AcceptList ==
  /\ Len(flights) < MaxInFlight
  /\ flights' = Append(flights, Listed)
  /\ UNCHANGED <<CONFIG, LOGGER, now, inv, proc>>

\* the HTTP exchange of invocation k completes
Settle(k, reply) ==
  /\ k \in DOMAIN flights
  /\ flights[k].pc = "awaiting"
  /\ WaitsFor(flights, k) = {}
  /\ flights' = [flights EXCEPT ![k] = Resumed(@, reply)]
  /\ UNCHANGED <<CONFIG, LOGGER, now, inv, proc>>

\* the response of invocation k has left; it is no longer in flight
Send(k) ==
  /\ k \in DOMAIN flights
  /\ flights[k].pc = "responded"
  /\ WaitsFor(flights, k) = {}
  /\ flights' = SubSeq(flights, 1, k - 1) \o SubSeq(flights, k + 1, Len(flights))
  /\ UNCHANGED <<CONFIG, LOGGER, now, inv, proc>>

NextConc ==
  \/ \E r \in ConcRequests : Accept(r.name, r.args)
  \/ AcceptList
  \/ \E k \in 1..MaxInFlight, reply \in ConcReplies : Settle(k, reply)
  \/ \E k \in 1..MaxInFlight : Send(k)

SpecConc == Init /\ [][NextConc]_vars

StreamRequests ==
  ConcRequests
  \cup {[name |-> n, args |-> EmptyArgs] : n \in {"constructor", "valueOf", "status_show"}}
  \cup {[name |-> "package_search", args |-> [rows |-> Num(0)]]}

InitStream ==
  /\ CONFIG \in ServerConfigs
  /\ LOGGER \in LoggerChoices
  /\ now \in ClockReadings
  /\ inv = Idle
  /\ flights = <<>>
  /\ proc = Running

NextStream ==
  \/ ListTools
  \/ \E r \in StreamRequests : CallTool(r.name, r.args)
  \/ \E reply \in ConcReplies : UpstreamReply(reply)
  \/ Deliver

SpecStream == InitStream /\ [][NextStream]_vars

\* C15: in production and in development mode, at every step of handling a
\* List or Invoke request, all log entries are written to stderr and nothing
\* but protocol responses is written to stdout.
C15_StdoutIsProtocolOnly ==
  /\ \A e \in inv.stdout : e.kind = "protocol"
  /\ \A e \in inv.stderr : e.kind = "log"

(***************************************************************************)
(* Error mapping (specification SpecClient).                               *)
(***************************************************************************)
\* the call was completed by a failed exchange
C16_Failed ==
  inv.mode = "client" /\ inv.pc = "responded" /\ inv.reply.kind \notin {"none", "ok"}

\* the upstream sent an HTTP response: a non-2xx status, or a 2xx status
\* with a body that is no JSON
C16_ResponseExists == inv.reply.kind \in {"http", "badjson"}

C16_Status == IF inv.reply.kind = "http" THEN inv.reply.status ELSE "200"

\* the human message: the first available of the body's error.message, the
\* stringified error field, the raw body text, the exception's message
C16_Human ==
  LET b == inv.reply.body
  IN IF b.errorMessage # "" THEN b.errorMessage
     ELSE IF b.errorType # "none" /\ b.errorText # "" THEN b.errorText
     ELSE IF b.text # "" THEN b.text
     ELSE inv.reply.message

\* the mapped error of a reply that carries the response
C16_HttpMapped ==
  inv.response.error =
    <<"[CKAN ", inv.http[1].actionName, "] HTTP ", inv.reply.status, " - ",
      C16_Human, "\nURL: ", inv.http[1].path>>

\* C16: every failure of an upstream call is raised as one error whose
\* message carries the operation name; when an HTTP response exists it also
\* carries the HTTP status and the request URL, and its human message is the
\* first available of the body's error.message, the stringified error field,
\* the raw body text and the transport exception's message.
C16_ErrorMapped ==
  C16_Failed
    => /\ inv.response.kind = "throw"
       /\ SubSeq(inv.response.error, 1, 3)
            = <<"[CKAN ", inv.http[1].actionName, "] ">>
          \/ SubSeq(inv.response.error, 1, 3)
               = <<"[CKAN ", inv.http[1].actionName, "] HTTP ">>
       /\ C16_ResponseExists
            => /\ C16_Status \in {inv.response.error[i] : i \in 1..Len(inv.response.error)}
               /\ inv.http[1].path
                    \in {inv.response.error[i] : i \in 1..Len(inv.response.error)}
               /\ inv.reply.kind = "http" => C16_HttpMapped

\* the same, for the failures whose exception carries the response
C16_MappedWhenCarried ==
  (C16_Failed /\ inv.reply.kind = "http")
    => /\ inv.response.kind = "throw"
       /\ C16_HttpMapped

(***************************************************************************)
(* From the tool to the client operation and back (specification Spec).    *)
(***************************************************************************)
\* the values the handler's validation hands on
C17_Data == safeParse(SchemaOf(inv.name), inv.args).data

\* the call of the backing operation the tool is to make: single-id tools
\* pass the id as a plain string, autocomplete tools pass q and limit,
\* datastore_info passes id and include_private, tools without arguments
\* pass none, every other tool passes the validated object
C17_ExpectedCall ==
  LET op == OperationOf(inv.name)
      d == C17_Data
  IN CASE inv.name \in {"package_show", "organization_show", "group_show",
                        "vocabulary_show", "tag_show", "resource_show",
                        "resource_view_show"} -> ClientOp(op, Get(d, "id"), Undef)
       [] inv.name = "resource_view_list" -> ClientOp(op, Get(d, "resource_id"), Undef)
       [] inv.name = "help_show" -> ClientOp(op, Get(d, "name"), Undef)
       [] inv.name = "datastore_search_sql" -> ClientOp(op, Get(d, "sql"), Undef)
       [] inv.name \in {"package_autocomplete", "tag_autocomplete"} ->
            ClientOp(op, Get(d, "q"), Get(d, "limit"))
       [] inv.name = "datastore_info" ->
            ClientOp(op, Get(d, "id"), Get(d, "include_private"))
       [] inv.name \in {"license_list", "vocabulary_list", "status_show"} ->
            ClientOp(op, Undef, Undef)
       [] OTHER -> ClientOp(op, d, Undef)

C17_Valid ==
  /\ inv.mode = "tool"
  /\ inv.pc # "idle"
  /\ inv.name \in ToolNames
  /\ inv.validation = "passed" \/ inv.name = "status_show"

\* C17: an invocation with valid arguments calls the backing client
\* operation exactly once with the validated values, and when that call
\* succeeds the envelope has no isError flag and exactly one text item, the
\* JSON serialization of the client's return value as it is.
C17_ToolCallsOperation ==
  C17_Valid
    => /\ inv.client = <<OperationOf(inv.name)>>
       /\ IF C17_ExpectedCall.kind = "throw" THEN inv.http = <<>>
          ELSE /\ inv.http # <<>>
               /\ \A i \in 1..Len(inv.http) : inv.http[i] = C17_ExpectedCall.request
               /\ (inv.pc = "responded" /\ inv.reply.kind = "ok")
                    => /\ "isError" \notin DOMAIN inv.response
                       /\ Len(inv.response.content) = 1
                       /\ inv.response.content[1].type = "text"
                       /\ inv.response.content[1].text
                            = JsonText(ClientResume(C17_ExpectedCall.request,
                                                    inv.reply).value)

\* the dataset search with rows given: the request carries q and rows, and
\* the upstream's body is the envelope's text
C17_SearchSurfacesVerbatim ==
  /\ Responded
  /\ inv.name = "package_search"
  /\ inv.args = [rows |-> Num(2)]
  /\ inv.client = <<"packageSearch">>
  /\ SentNumber(inv.http[1], "rows", 2)
  /\ inv.reply.kind = "ok"
  /\ inv.reply.body.success
  /\ inv.response = [content |-> <<TextItem(JsonText(inv.reply.body))>>]

(***************************************************************************)
(* Offsets (specification SpecClient).                                     *)
(***************************************************************************)
C18_Key == IF inv.client = <<"packageSearch">> THEN "start" ELSE "offset"
C18_Supplied == IF IsArgsObject(inv.args.a) THEN Get(inv.args.a, C18_Key) ELSE Undef

\* C18: in every operation that accepts an offset-like field (offset; start
\* in packageSearch) a supplied numeric value v is sent upstream as
\* max(0, v), so no outgoing request carries a negative offset.
C18_OffsetClamped ==
  (inv.mode = "client" /\ inv.http # <<>> /\ C18_Supplied.t = "number")
    => \A i \in 1..Len(inv.http) :
         SentNumber(inv.http[i], C18_Key,
                    IF C18_Supplied.v < 0 THEN 0 ELSE C18_Supplied.v)

\* the same, for the four operations that clamp
C18_ClampedWhereClamped ==
  (inv.client # <<>>
     /\ inv.client[1] \in {"packageList", "currentPackageListWithResources",
                           "packageActivityList",
                           "recentlyChangedPackagesActivityList"})
    => C18_OffsetClamped

(***************************************************************************)
(* The row-limit ceiling (specification SpecClient, every configuration).  *)
(***************************************************************************)
C19_LimitKeys == {"rows", "limit", "facet.limit"}

\* C19: for every operation, input and configuration, every row-count or
\* limit parameter of the outgoing request (rows, limit, facet.limit),
\* supplied by the caller or filled in by default, lies within
\* [0, MAX_ROWS].
C19_LimitsWithinCeiling ==
  inv.mode = "client"
    => \A i \in 1..Len(inv.http) :
         \A key \in SentKeys(inv.http[i]) \cap C19_LimitKeys :
           \E n \in 0..CONFIG.MAX_ROWS : SentNumber(inv.http[i], key, n)

\* the same for rows and limit supplied by the caller, under a ceiling that
\* is not negative
C19_SuppliedWithinCeiling ==
  (inv.mode = "client" /\ CONFIG.MAX_ROWS >= 0 /\ C5_Supplied.t = "number")
    => \A i \in 1..Len(inv.http) :
         \A key \in SentKeys(inv.http[i]) \cap {"rows", "limit"} :
           \E n \in 0..CONFIG.MAX_ROWS : SentNumber(inv.http[i], key, n)

(***************************************************************************)
(* Tag autocomplete (specification SpecClient).                            *)
(***************************************************************************)
C20_Answered ==
  /\ inv.mode = "client"
  /\ inv.client = <<"tagAutocomplete">>
  /\ inv.pc = "responded"
  /\ inv.reply.kind = "ok"

\* C20: when the upstream response's result is an array, every item that is
\* a bare string s is returned as the object {name: s} and every item that
\* is already an object is returned unchanged, in the same order, with the
\* other top-level fields of the response preserved; a response whose result
\* is not an array is returned unmodified.
C20_TagsNormalized ==
  C20_Answered
    => LET body == inv.reply.body
           res == inv.response.value
       IN /\ inv.response.kind = "return"
          /\ IF body.result.t = "list"
             THEN /\ DOMAIN res = DOMAIN body
                  /\ \A f \in DOMAIN body \ {"result"} : res[f] = body[f]
                  /\ res.result.t = "list"
                  /\ Len(res.result.v) = Len(body.result.v)
                  /\ \A i \in 1..Len(body.result.v) :
                       res.result.v[i] =
                         IF body.result.v[i].t = "string"
                         THEN Obj(<< <<T_name, body.result.v[i]>> >>)
                         ELSE body.result.v[i]
             ELSE res = body

\* ["a", {name: "b"}] is returned as [{name: "a"}, {name: "b"}]
C20_MixedListNormalized ==
  /\ C20_Answered
  /\ inv.reply.body.result = List(<<Str(T_a), Obj(<< <<T_name, Str(T_b)>> >>)>>)
  /\ inv.response.value.result
       = List(<<Obj(<< <<T_name, Str(T_a)>> >>), Obj(<< <<T_name, Str(T_b)>> >>)>>)
  /\ inv.response.value.success

(***************************************************************************)
(* The global activity feed (specification SpecClient).                    *)
(***************************************************************************)
C21_IsFeed == inv.client = <<"recentlyChangedPackagesActivityList">>
C21_Since == Get(inv.args.a, "since_time")

\* the ISO text of the instant one hour before the clock reading
C21_HourAgo == <<"ISO(">> \o NatToText(now - 3600000) \o <<")">>

\* the feed is the only operation with twice TIMEOUT_MS
C21_TimeoutDoubledForFeedOnly ==
  \A i \in 1..Len(inv.http) :
    inv.http[i].timeout = IF C21_IsFeed THEN 2 * CONFIG.TIMEOUT_MS
                          ELSE CONFIG.TIMEOUT_MS

\* C21 (as stated): recentlyChangedPackagesActivityList is the only
\* operation whose request timeout is 2 x TIMEOUT_MS; with no since_time
\* supplied the request carries the current time minus one hour, and a
\* supplied since_time is sent unchanged.
C21_FeedAsStated ==
  (inv.mode = "client" /\ inv.http # <<>>)
    => /\ C21_TimeoutDoubledForFeedOnly
       /\ C21_IsFeed
            => ValueOf(inv.http[1].query, "since_time") =
                 IF C21_Since.t = "string" THEN C21_Since.v ELSE C21_HourAgo

\* C21: recentlyChangedPackagesActivityList is the only operation whose
\* request timeout is 2 x TIMEOUT_MS; with no since_time supplied, or an
\* empty one, the request carries the current time minus one hour, and a
\* supplied non-empty since_time is sent unchanged.
C21_FeedWindow ==
  (inv.mode = "client" /\ inv.http # <<>>)
    => /\ C21_TimeoutDoubledForFeedOnly
       /\ C21_IsFeed
            => ValueOf(inv.http[1].query, "since_time") =
                 IF C21_Since.t = "string" /\ C21_Since.v # <<>>
                 THEN C21_Since.v ELSE C21_HourAgo

\* the feed called without since_time at 01:30:00.000 after the epoch asks
\* for the events since 00:30:00.000, with twice the timeout
C21_DefaultWindowSent ==
  /\ inv.mode = "client"
  /\ inv.pc = "awaiting"
  /\ C21_IsFeed
  /\ C21_Since = Undef
  /\ now = 5400000
  /\ ValueOf(inv.http[1].query, "since_time") = <<"ISO(">> \o NatToText(1800000) \o <<")">>
  /\ inv.http[1].timeout = 2 * CONFIG.TIMEOUT_MS

(***************************************************************************)
(* The total count of a row search (specification SpecClient).             *)
(***************************************************************************)
\* the request carries include_total as the boolean b: the text true/false
\* in a query string, the JSON boolean in a body
C22_SentBoolean(req, b) ==
  /\ "include_total" \in SentKeys(req)
  /\ IF req.method = "GET"
     THEN ValueOf(req.query, "include_total")
            = (IF b THEN <<"t","r","u","e">> ELSE <<"f","a","l","s","e">>)
     ELSE ValueOf(req.body, "include_total") = Bool(b)

\* C22: every datastore_search request sent upstream, by GET or by POST,
\* carries a boolean include_total, and it is false unless the caller
\* explicitly supplied include_total = true.
C22_TotalOffByDefault ==
  (inv.mode = "client" /\ inv.client = <<"datastoreSearch">>)
    => \A i \in 1..Len(inv.http) :
         C22_SentBoolean(inv.http[i], Get(inv.args.a, "include_total") = Bool(TRUE))

\* a row search with a filter object and no include_total posts
\* include_total: false
C22_PostedWithoutTotal ==
  /\ inv.mode = "client"
  /\ inv.pc = "awaiting"
  /\ inv.client = <<"datastoreSearch">>
  /\ Get(inv.args.a, "include_total") = Undef
  /\ inv.http[1].method = "POST"
  /\ ValueOf(inv.http[1].body, "include_total") = Bool(FALSE)

(***************************************************************************)
(* Coercion of arguments (specification Spec).                             *)
(***************************************************************************)
\* the value is a text that converts to the declared number or boolean
C23_Convertible(ty, v) ==
  /\ v.t = "string"
  /\ \/ ty \in {"int.positive", "int.nonnegative"}
          /\ v.v \in {NatToText(n) : n \in 1..ArgNumBound}
     \/ ty = "boolean" /\ v.v \in {T_true, <<"f","a","l","s","e">>}

\* the arguments are those a tool requires, and one numeric or boolean
\* field in convertible form
C23_OneConvertible ==
  LET shape == SchemaOf(inv.name).shape
  IN \E k \in DOMAIN inv.args \cap DOMAIN shape :
       /\ C23_Convertible(shape[k].ty, inv.args[k])
       /\ Without(inv.args, k) = BaseArgs(inv.name)

\* C23: a numeric or boolean field supplied in a non-native but convertible
\* form (rows as the string "10", all_fields as the string "true") is
\* converted to the declared type and accepted, not rejected as a
\* validation failure.
C23_ConvertibleAccepted ==
  (inv.mode = "tool" /\ inv.pc # "idle" /\ inv.name \in ToolNames /\ C23_OneConvertible)
    => /\ inv.validation = "passed"
       /\ inv.client # <<>>

(***************************************************************************)
(* List requests among invocations (specification SpecConc).               *)
(***************************************************************************)
\* the descriptors the five modules register, in the order of the merge
C24_Registered ==
  getCatalogTools \o getOrgTaxonomyTools \o getDatastoreTools
  \o getResourcesTools \o getStatusTools

C24_IsList(f) == f.mode = "list"

\* a List request is answered at once with {tools: [...]} holding every
\* registered descriptor, and has made no call
C24_ListAnswer ==
  \A k \in DOMAIN flights :
    C24_IsList(flights[k])
      => /\ flights[k].pc = "responded"
         /\ DOMAIN flights[k].response = {"tools"}
         /\ flights[k].response.tools = C24_Registered
         /\ flights[k].client = <<>>
         /\ flights[k].http = <<>>

\* the step that handles a List request leaves every invocation in flight,
\* the configuration and the single-request state as they were
C24_ListStep ==
  (/\ Len(flights') = Len(flights) + 1
   /\ C24_IsList(flights'[Len(flights')]))
    => /\ SubSeq(flights', 1, Len(flights)) = flights
       /\ UNCHANGED <<CONFIG, LOGGER, now, inv, proc>>

\* C24: a List request returns {tools: [...]} with every registered tool
\* descriptor; across any sequence of List and Invoke requests (failed ones
\* and ones still in flight included) every List request returns the same
\* descriptors in the same order, issues no network call and changes no
\* state.
C24_ListIsPure == [](C24_ListAnswer) /\ [][C24_ListStep]_vars

\* a List request answered while an invocation waits on its upstream call
C24_ListedWhileInFlight ==
  /\ Len(flights) = 2
  /\ flights[1].pc = "awaiting"
  /\ C24_IsList(flights[2])
  /\ Len(flights[2].response.tools) = 25

(***************************************************************************)
(* Filter normalization of a list-valued fq (specification SpecText).      *)
(***************************************************************************)
\* C25: when package_search is invoked with fq as a list of strings, every
\* unquoted organization:<slug> token of each element is sent upstream
\* quoted and OR-expanded with publisher, exactly as for a string fq: the
\* fq sent holds the rewritten form of each element.
C25_ArrayFqNormalized ==
  (/\ inv.mode = "tool"
   /\ inv.name = "package_search"
   /\ inv.http # <<>>
   /\ Get(inv.args, "fq").t = "array")
    => /\ "fq" \in KeysOf(inv.http[1].query)
       /\ \A i \in 1..Len(Get(inv.args, "fq").v) :
            Contains(ValueOf(inv.http[1].query, "fq"),
                     C8_Rewritten(Get(inv.args, "fq").v[i], 1))

(***************************************************************************)
(* Registry lock-step (specification Spec).                                *)
(***************************************************************************)
\* the field names a client operation reads: the members it takes from its
\* argument object, or the names of its positional parameters
ReadsOf(op) ==
  CASE op = "packageSearch" ->
         {"q", "fq", "sort", "rows", "start", "facetField", "facetLimit"}
    [] op = "packageList" -> {"offset", "limit", "since"}
    [] op = "currentPackageListWithResources" -> {"offset", "limit"}
    [] op \in {"packageAutocomplete", "tagAutocomplete"} -> {"q", "limit"}
    [] op = "packageActivityList" -> {"id", "limit", "offset"}
    [] op = "recentlyChangedPackagesActivityList" -> {"since_time", "limit", "offset"}
    [] op = "organizationList" -> {"all_fields", "limit", "offset"}
    [] op = "groupList" -> {"order_by", "limit", "offset", "all_fields"}
    [] op = "tagList" -> {"query"}
    [] op \in {"packageShow", "organizationShow", "groupShow", "vocabularyShow",
               "tagShow", "resourceShow", "resourceViewShow"} -> {"id"}
    [] op = "resourceViewList" -> {"resource_id", "id"}
    [] op = "datastoreInfo" -> {"id", "include_private"}
    [] op = "datastoreSearch" ->
         {"resource_id", "q", "filters", "fields", "sort", "language",
          "include_total", "limit", "offset", "distinct", "plain", "full_text"}
    [] op = "datastoreSearchSql" -> {"sql"}
    [] op = "helpShow" -> {"name"}
    [] OTHER -> {}

\* the required field names of a validation schema
C26_RequiredOf(schema) == {k \in DOMAIN schema.shape : ~schema.shape[k].optional}

\* C26: for every tool, the field names and the required field names of the
\* advertised input shape equal those of the tool's validation schema, and
\* the field names equal the fields the backing client operation reads.
C26_LockStep ==
  (inv.mode = "tool" /\ inv.name \in ToolNames /\ inv.client # <<>>)
    => /\ DOMAIN InputShapeOf(inv.name).properties = DOMAIN SchemaOf(inv.name).shape
       /\ InputShapeOf(inv.name).required = C26_RequiredOf(SchemaOf(inv.name))
       /\ DOMAIN SchemaOf(inv.name).shape = ReadsOf(inv.client[1])

(***************************************************************************)
(* No cross-request state (specification SpecConc).                        *)
(***************************************************************************)
\* the envelope an invocation yields when it is the only one the process
\* ever serves: from its tool name, its arguments, the configuration and
\* the replies to its own HTTP request
C27_Alone(f) ==
  IF f.reply = NoReply THEN Started(f.name, f.args).response
  ELSE Resumed([Started(f.name, f.args) EXCEPT !.http = f.http], f.reply).response

\* every answered invocation carries the envelope it yields alone
C27_OwnResult ==
  \A k \in DOMAIN flights :
    (flights[k].mode = "tool" /\ flights[k].pc = "responded")
      => flights[k].response = C27_Alone(flights[k])

\* a step starts one invocation, resumes one invocation from its own record
\* and its own reply, or removes one answered invocation; it leaves every
\* other invocation, the configuration, the tool list and the handler map
\* as they were
C27_Step ==
  /\ CONFIG' = CONFIG
  /\ toolDefs' = toolDefs
  /\ \A n \in ToolNames \cup UnknownNames : handlers(n)' = handlers(n)
  /\ \/ /\ Len(flights') = Len(flights) + 1
        /\ SubSeq(flights', 1, Len(flights)) = flights
     \/ \E k \in DOMAIN flights :
          /\ flights[k].pc = "awaiting"
          /\ \E reply \in ConcReplies :
               flights' = [flights EXCEPT ![k] = Resumed(flights[k], reply)]
     \/ \E k \in DOMAIN flights :
          /\ flights[k].pc = "responded"
          /\ flights' = SubSeq(flights, 1, k - 1)
                        \o SubSeq(flights, k + 1, Len(flights))

C28_NamesOf(tools) == {tools[i].name : i \in 1..Len(tools)}

\* the keys of a module's handler map, by module
C28_HandlerKeys ==
  [catalog |-> CatalogHandlerNames, orgTaxonomy |-> OrgTaxonomyHandlerNames,
   datastore |-> DatastoreHandlerNames, resources |-> ResourcesHandlerNames,
   status |-> StatusHandlerNames]

\* the names each module advertises
C28_Advertised ==
  [catalog |-> C28_NamesOf(getCatalogTools),
   orgTaxonomy |-> C28_NamesOf(getOrgTaxonomyTools),
   datastore |-> C28_NamesOf(getDatastoreTools),
   resources |-> C28_NamesOf(getResourcesTools),
   status |-> C28_NamesOf(getStatusTools)]

\* C28: the advertised tool list and the handler map describe the same flat
\* namespace: the advertised names are pairwise distinct across the five
\* modules, every advertised name has a handler function, every handler key
\* is an advertised name, and no module's handler shadows another's in the
\* merged map: an invocation of an advertised name runs its own handler.
C28_FlatNamespace ==
  /\ \A i, j \in 1..Len(toolDefs) : toolDefs[i].name = toolDefs[j].name => i = j
  /\ \A n \in ToolNames :
       handlers(n).kind = "function" /\ handlers(n).owner # "Object.prototype"
  /\ \A m \in DOMAIN C28_HandlerKeys :
       /\ C28_HandlerKeys[m] = C28_Advertised[m]
       /\ \A o \in DOMAIN C28_HandlerKeys \ {m} :
            C28_HandlerKeys[m] \cap C28_HandlerKeys[o] = {}
  /\ (inv.mode = "tool" /\ inv.name \in ToolNames) => inv.called = <<inv.name>>

\* a tool of the module merged last has been dispatched to that module's
\* handler, which called its client operation
C28_LastModuleDispatched ==
  /\ inv.mode = "tool"
  /\ inv.name = "help_show"
  /\ handlers(inv.name).owner = "status"
  /\ inv.called = <<"help_show">>
  /\ inv.client = <<"helpShow">>

(***************************************************************************)
(* The error flag of a tool envelope (specification Spec).                 *)
(***************************************************************************)
\* the client operation the handler called has thrown: it refused the call
\* locally, or its HTTP request ended in anything but a parsed 2xx body
C29_Threw == inv.client # <<>> /\ inv.reply.kind # "ok"

\* C29: the envelope of a tool has isError = true if and only if validation
\* failed or the client operation threw: a 2xx reply whose JSON body carries
\* success = false is returned by the client as a normal result and
\* surfaces as a non-error envelope that holds that body.
C29_ErrorIffFailedOrThrown ==
  (inv.mode = "tool" /\ inv.pc = "responded" /\ inv.name \in ToolNames)
    => /\ ("isError" \in DOMAIN inv.response /\ inv.response.isError)
            <=> (inv.validation = "failed" \/ C29_Threw)
       /\ (inv.reply.kind = "ok" /\ ~inv.reply.body.success)
            => inv.response = [content |-> <<TextItem(JsonText(inv.reply.body))>>]

\* a dataset lookup answered 2xx with success = false: the envelope is not
\* an error and carries the body
C29_UnsuccessfulBodySurfaced ==
  /\ inv.mode = "tool"
  /\ inv.pc = "responded"
  /\ inv.name = "package_show"
  /\ inv.validation = "passed"
  /\ inv.reply.kind = "ok"
  /\ ~inv.reply.body.success
  /\ "isError" \notin DOMAIN inv.response
  /\ inv.response.content[1].text = JsonText(inv.reply.body)

(***************************************************************************)
(* Process lifecycle: main() registers shutdown for SIGINT and SIGTERM.    *)
(* A signal runs shutdown up to its await of transport.close(); the rest   *)
(* runs when the close settles.  process.exit ends everything: no handler, *)
(* continuation or signal runs in an exited process.                       *)
(***************************************************************************)
\* the signals a running process is sent before it has exited
MaxSignals == 2

Signals == {"SIGINT", "SIGTERM"}
CloseOutcomes == {"resolved", "rejected"}

\* shutdown(signal) up to the await: logs the signal and starts the close
shutdown(p, signal) ==
  Emit([p EXCEPT !.shutdowns = Append(@, [signal |-> signal, pc |-> "closing"])],
       {LogEntry("info", "Shutting down MCP server")})

\* a shutdown whose process.exit(0) is the last statement of the try block
shutdownResume_NoFinally(p, k, outcome) ==
  IF outcome = "rejected"
  THEN Emit([p EXCEPT !.shutdowns[k].pc = "done"],
            {LogEntry("error", "Error during shutdown")})
  ELSE [p EXCEPT !.shutdowns[k].pc = "done", !.exit = <<0>>]

\* shutdown after the await: catch logs a rejected close, finally exits
shutdownResume(p, k, outcome) ==
  LET caught == IF outcome = "rejected"
                THEN Emit(p, {LogEntry("error", "Error during shutdown")})
                ELSE p
  IN [caught EXCEPT !.shutdowns[k].pc = "done", !.exit = <<0>>]

\* process.on('SIGINT' | 'SIGTERM', () => shutdown(signal))
Signal(signal) ==
  /\ proc.exit = <<>>
  /\ Len(proc.shutdowns) < MaxSignals
  /\ proc' = shutdown(proc, signal)
  /\ UNCHANGED <<CONFIG, LOGGER, now, inv, flights>>

\* the promise of transport.close() of shutdown k settles
CloseSettles(k, outcome) ==
  /\ proc.exit = <<>>
  /\ k \in DOMAIN proc.shutdowns
  /\ proc.shutdowns[k].pc = "closing"
  /\ proc' = shutdownResume(proc, k, outcome)
  /\ UNCHANGED <<CONFIG, LOGGER, now, inv, flights>>

\* the invocations in flight while the process is shut down: a dataset
\* lookup that is answered or times out
LifecycleRequests == {[name |-> "package_show", args |-> [id |-> Str(T_a)]]}
LifecycleReplies ==
  {r \in ConcReplies : r.kind = "timeout" \/ (r.kind = "ok" /\ r.body.success)}

NextLifecycle ==
  \/ \E r \in LifecycleRequests : proc.exit = <<>> /\ Accept(r.name, r.args)
  \/ \E k \in 1..MaxInFlight, reply \in LifecycleReplies :
       proc.exit = <<>> /\ Settle(k, reply)
  \/ \E k \in 1..MaxInFlight : proc.exit = <<>> /\ Send(k)
  \/ \E signal \in Signals : Signal(signal)
  \/ \E k \in 1..MaxSignals, outcome \in CloseOutcomes : CloseSettles(k, outcome)

\* transport.close() is awaited once per shutdown and its promise settles:
\* the continuation of a shutdown that is closing is run by the event loop
SpecLifecycle ==
  /\ Init
  /\ [][NextLifecycle]_vars
  /\ WF_vars(\E k \in 1..MaxSignals, outcome \in CloseOutcomes : CloseSettles(k, outcome))

\* a signal has been received
C30_Signalled == proc.shutdowns # <<>>

\* the process has exited with code 0
C30_ExitedZero == proc.exit = <<0>>

\* each signal received was logged, the only exit code is 0, and a shutdown
\* that is closing the transport waits for nothing but its close: not for
\* the invocations in flight, not for an earlier shutdown
C30_ShutdownState ==
  /\ proc.exit \in {<<>>, <<0>>}
  /\ proc.exit # <<>> => C30_Signalled
  /\ C30_Signalled => LogEntry("info", "Shutting down MCP server") \in proc.stderr
  /\ proc.exit = <<>>
       => \A k \in DOMAIN proc.shutdowns :
            proc.shutdowns[k].pc = "closing"
              => \A outcome \in CloseOutcomes : ENABLED CloseSettles(k, outcome)

\* C30: after SIGINT or SIGTERM is received the process logs the signal,
\* attempts to close the transport, and then always exits with code 0,
\* whether the close succeeds, throws, or a second signal arrives while the
\* first shutdown is still closing; invocations in flight are abandoned
\* rather than awaited.
C30_ShutdownExitsZero == [](C30_ShutdownState) /\ (C30_Signalled ~> C30_ExitedZero)

\* the process exited with code 0 after a second signal arrived during the
\* close, the close that ended was rejected and logged, and an invocation
\* that was waiting on its upstream call was left unanswered
C30_ExitedWithInFlight ==
  /\ proc.exit = <<0>>
  /\ Len(proc.shutdowns) = 2
  /\ \E k \in DOMAIN proc.shutdowns : proc.shutdowns[k].pc = "closing"
  /\ LogEntry("error", "Error during shutdown") \in proc.stderr
  /\ \E k \in DOMAIN flights : flights[k].pc = "awaiting"
====
